---------------------------- MODULE Spec2Model ----------------------------
(***************************************************************************)
(* A model of jsoncomparison.Compare (src/jsoncomparison/compare.py): the  *)
(* recursive diff engine, the weighted count model, the pairing of list    *)
(* items by an optimal assignment, and the Result built from a diff.       *)
(*                                                                         *)
(* Encoding.                                                               *)
(*  - A JSON value is a record [t, v]: t is the Python type name and v the *)
(*    payload (null: 0, bool: BOOLEAN, int: Int, float: Int counting       *)
(*    thousandths, str: STRING, list: sequence of values, dict: function   *)
(*    from string keys to values).  Floats are finite; keys of data        *)
(*    objects never start with an underscore.  Every record names t before *)
(*    v, here and in every module that extends this one: TLC then tells    *)
(*    two values of different types apart by t and never compares their    *)
(*    payloads.                                                            *)
(*  - A number of the weight specification, a weight and a similarity are  *)
(*    exact rationals <<n, d>> in lowest terms with d > 0.                 *)
(*  - A weight specification is a record [t |-> "spec", v |-> f] with f a  *)
(*    function from keys to entries: a number [t |-> "num", v |-> q], a    *)
(*    nested specification, or a flag [t |-> "bool", v |-> b].             *)
(*  - A diff is NO_DIFF, a composite [t |-> "node", v |-> f] from keys to  *)
(*    diffs, or an error record [t |-> "err", v |-> [...]].  A key is      *)
(*    <<"key", s>> (a string key s), <<"idx", i>> (the integer i) or       *)
(*    <<"extra", j>> (the string 'extra_<j>').                             *)
(***************************************************************************)
EXTENDS Integers, Sequences, FiniteSets, TLC

VARIABLES expected, actual, weights, config, pc, diff, result, reported

vars == <<expected, actual, weights, config, pc, diff, result, reported>>

-----------------------------------------------------------------------------
(* Exact rational arithmetic.                                              *)

Abs(n) == IF n < 0 THEN -n ELSE n

RECURSIVE GCD(_, _)
GCD(a, b) == IF b = 0 THEN a ELSE GCD(b, a % b)

Rat(n, d) ==
    LET g == GCD(Abs(n), d)
    IN  IF g = 0 THEN <<0, 1>> ELSE <<n \div g, d \div g>>

Zero == <<0, 1>>
One == <<1, 1>>
RInt(n) == <<n, 1>>
RMul(x, y) == Rat(x[1] * y[1], x[2] * y[2])
RAdd(x, y) == Rat(x[1] * y[2] + y[1] * x[2], x[2] * y[2])
RSub(x, y) == Rat(x[1] * y[2] - y[1] * x[2], x[2] * y[2])
RDiv(x, y) == IF y[1] > 0 THEN Rat(x[1] * y[2], x[2] * y[1])
                          ELSE Rat(-(x[1] * y[2]), x[2] * (-y[1]))
RLess(x, y) == x[1] * y[2] < y[1] * x[2]
RLeq(x, y) == x[1] * y[2] <= y[1] * x[2]
RMax(x, y) == IF RLess(x, y) THEN y ELSE x

-----------------------------------------------------------------------------
(* JSON values.                                                            *)

Null == [t |-> "null", v |-> 0]
Bool(b) == [t |-> "bool", v |-> b]
Int_(n) == [t |-> "int", v |-> n]
Float(n) == [t |-> "float", v |-> n]
Str(s) == [t |-> "str", v |-> s]
List(s) == [t |-> "list", v |-> s]
Dict(f) == [t |-> "dict", v |-> f]

EmptyMap == <<>>

(* type(x).__name__ *)
TypeName(x) == IF x.t = "null" THEN "NoneType" ELSE x.t

(* isinstance(a, t) for t = type(e): bool is a subclass of int.            *)
IsInstance(a, t) == a.t = t \/ (t = "int" /\ a.t = "bool")

(* The number a bool or an int stands for in a == e.                       *)
IntOf(x) == IF x.t = "bool" THEN (IF x.v THEN 1 ELSE 0) ELSE x.v


-----------------------------------------------------------------------------
(* Configuration: Config.get(path) yields the value stored at the dotted   *)
(* path, or None.  A configuration is the record of the three values the   *)
(* comparison reads.                                                       *)

ConfigGet(cfg, path) ==
    CASE path = "types.float.allow_round" -> cfg.allow_round
      [] path = "types.list.check_length" -> cfg.check_length
      [] path = "types.list.length_diff_penalty" -> cfg.length_diff_penalty
      [] path = "output.console" /\ "console" \in DOMAIN cfg -> cfg.console
      [] path = "output.file" /\ "file" \in DOMAIN cfg -> cfg.file
      [] path = "output.file.name" /\ "file" \in DOMAIN cfg /\ "name" \in DOMAIN cfg.file ->
             cfg.file["name"]
      [] OTHER -> Null

FloatPrecision(cfg) == ConfigGet(cfg, "types.float.allow_round")

(* type(p) is int: a bool is not accepted                                  *)
CanRoundedFloat(cfg) == FloatPrecision(cfg).t = "int"

(* self._config.get(path) is True                                          *)
NeedCompareLength(cfg) == ConfigGet(cfg, "types.list.check_length") = Bool(TRUE)

LengthDiffPenalty(cfg) ==
    ConfigGet(cfg, "types.list.length_diff_penalty") = Bool(TRUE)

-----------------------------------------------------------------------------
(* Weight specification.                                                   *)

Num(q) == [t |-> "num", v |-> q]
Flag(b) == [t |-> "bool", v |-> b]
WSpec(f) == [t |-> "spec", v |-> f]
NO_WEIGHTS == WSpec(EmptyMap)

(* get_boolean(config, key): config is a dict, holds key, and the entry is *)
(* the object True                                                         *)
GetBoolean(w, key) ==
    /\ w.t = "spec"
    /\ key \in DOMAIN w.v
    /\ w.v[key] = Flag(TRUE)

IsSuppressed(w) == GetBoolean(w, "_suppress")

(* The weight of a key read from bare numbers only: a nested              *)
(* specification weighs 1 whatever its '_weight'.                          *)
GetWeightOfNumbers(w, key) ==
    IF w.t = "num"
    THEN w.v
    ELSE IF key \in DOMAIN w.v /\ w.v[key].t = "num" THEN w.v[key].v ELSE One

(* Compare._get_weight: a bare number weighs every key, a nested           *)
(* specification weighs by its '_weight' (default 1), a number by itself;  *)
(* a flag is a Python bool, which is an int.                               *)
GetWeight(w, key) ==
    IF w.t = "num"
    THEN w.v
    ELSE IF key \in DOMAIN w.v
         THEN LET x == w.v[key]
              IN  CASE x.t = "spec" ->
                         IF "_weight" \in DOMAIN x.v THEN x.v["_weight"].v
                                                     ELSE One
                    [] x.t = "num" -> x.v
                    [] x.t = "bool" -> IF x.v THEN One ELSE Zero
         ELSE One

(* Compare._get_nested_weights                                             *)
GetNestedWeights(w, key) ==
    IF w.t = "spec" /\ key \in DOMAIN w.v /\ w.v[key].t = "spec"
    THEN w.v[key]
    ELSE NO_WEIGHTS

(* The root weight taken as 1 whatever the specification holds.            *)
GetRootWeightDefault(w) == One

(* Compare._get_root_weight                                                *)
GetRootWeight(w) == IF "_weight" \in DOMAIN w.v THEN w.v["_weight"].v ELSE One

-----------------------------------------------------------------------------
(* Error records and diffs.                                                *)

NO_DIFF == [t |-> "node", v |-> EmptyMap]
Node(f) == [t |-> "node", v |-> f]
IsError(d) == d.t = "err"

KeyOf(s) == <<"key", s>>
IdxOf(i) == <<"idx", i>>
ExtraOf(j) == <<"extra", j>>

(* Error(expected, received, weight, suppressed).explain()                 *)
Explain(kind, e, r, weight, suppressed) ==
    [t |-> "err",
     v |-> [kind |-> kind, expected |-> e, received |-> r,
            weight |-> weight, suppressed |-> suppressed]]

TypesNotEqual(e, a, weight, suppressed) ==
    Explain("TypesNotEqual", Str(TypeName(e)), Str(TypeName(a)), weight, suppressed)

ValuesNotEqual(e, a, weight, suppressed) ==
    Explain("ValuesNotEqual", e, a, weight, suppressed)

KeyNotExist(e, a, weight, suppressed) ==
    Explain("KeyNotExist", e, a, weight, suppressed)

UnexpectedKey(e, a, weight, suppressed) ==
    Explain("UnexpectedKey", e, a, weight, suppressed)

LengthsNotEqual(e, a, weight, suppressed) ==
    Explain("LengthsNotEqual", Int_(e), Int_(a), weight, suppressed)

MissingListItem(e, a, weight, suppressed) ==
    Explain("MissingListItem", e, a, weight, suppressed)

ExtraListItem(e, a, weight, suppressed) ==
    Explain("ExtraListItem", e, a, weight, suppressed)

(* The entries of a diff with the empty ones kept.                         *)
WithEmpties(f) == f

(* Compare._without_empties                                                *)
WithoutEmpties(f) ==
    LET keep == {k \in DOMAIN f : f[k] # NO_DIFF}
    IN  [k \in keep |-> f[k]]


-----------------------------------------------------------------------------
(* scipy.optimize.linear_sum_assignment on an integer cost matrix (a       *)
(* sequence of rows): the shortest augmenting path method, rows taken in   *)
(* order, ties between columns broken in favour of a free column and then  *)
(* of the column scanned last.  Rows and columns count from 1; 0 stands    *)
(* for "unassigned".                                                       *)

RECURSIVE LsaScan(_, _, _, _, _, _)
LsaScan(ctx, i, minVal, remaining, it, acc) ==
    IF it > Len(remaining)
    THEN acc
    ELSE LET j == remaining[it]
             r == minVal + ctx.cost[i][j] - ctx.u[i] - ctx.v[j]
             better == r < acc.spc[j]
             spc1 == IF better THEN [acc.spc EXCEPT ![j] = r] ELSE acc.spc
             path1 == IF better THEN [acc.path EXCEPT ![j] = i] ELSE acc.path
             pick == \/ spc1[j] < acc.lowest
                     \/ (spc1[j] = acc.lowest /\ ctx.row4col[j] = 0)
         IN  LsaScan(ctx, i, minVal, remaining, it + 1,
                     [spc |-> spc1, path |-> path1,
                      lowest |-> IF pick THEN spc1[j] ELSE acc.lowest,
                      index |-> IF pick THEN it ELSE acc.index])

LsaInfinity == 1000000000

RECURSIVE LsaAugmentingPath(_, _, _, _, _, _, _, _)

(* One round of the search for an augmenting path, from the scan acc of    *)
(* the columns that remain: the column picked leaves the remaining ones,   *)
(* and the search ends at a free column (the sink).                        *)
LsaPick(ctx, i, remaining, SR, SC, acc) ==
    LET j == remaining[acc.index]
        n == Len(remaining)
    IN  IF ctx.row4col[j] = 0
        THEN [sink |-> j, minVal |-> acc.lowest, spc |-> acc.spc,
              path |-> acc.path, SR |-> SR \cup {i}, SC |-> SC \cup {j}]
        ELSE LsaAugmentingPath(ctx, ctx.row4col[j], acc.lowest,
                               [k \in 1..(n - 1) |->
                                  IF k = acc.index THEN remaining[n] ELSE remaining[k]],
                               acc.spc, acc.path, SR \cup {i}, SC \cup {j})

LsaAugmentingPath(ctx, i, minVal, remaining, spc, path, SR, SC) ==
    LsaPick(ctx, i, remaining, SR, SC,
            LsaScan(ctx, i, minVal, remaining, 1,
                    [spc |-> spc, path |-> path, lowest |-> LsaInfinity, index |-> 0]))

RECURSIVE LsaAugment(_, _, _, _, _)
LsaAugment(path, row4col, col4row, j, curRow) ==
    IF path[j] = curRow
    THEN [row4col |-> [row4col EXCEPT ![j] = path[j]],
          col4row |-> [col4row EXCEPT ![path[j]] = j]]
    ELSE LsaAugment(path, [row4col EXCEPT ![j] = path[j]],
                    [col4row EXCEPT ![path[j]] = j], col4row[path[j]], curRow)

(* The dual variables updated and the assignment augmented along the path  *)
(* p found for the row curRow.                                             *)
LsaUpdate(nr, nc, curRow, st, p, m) ==
    [u |-> [i \in 1..nr |->
              IF i = curRow THEN st.u[i] + p.minVal
              ELSE IF i \in p.SR
                   THEN st.u[i] + p.minVal - p.spc[st.col4row[i]]
                   ELSE st.u[i]],
     v |-> [j \in 1..nc |->
              IF j \in p.SC THEN st.v[j] - (p.minVal - p.spc[j]) ELSE st.v[j]],
     path |-> p.path, row4col |-> m.row4col, col4row |-> m.col4row]

LsaRow(cost, nr, nc, curRow, st, p) ==
    LsaUpdate(nr, nc, curRow, st, p,
              LsaAugment(p.path, st.row4col, st.col4row, p.sink, curRow))

RECURSIVE LsaSolve(_, _, _, _, _)
LsaSolve(cost, nr, nc, curRow, st) ==
    IF curRow > nr
    THEN st.col4row
    ELSE LsaSolve(cost, nr, nc, curRow + 1,
                  LsaRow(cost, nr, nc, curRow, st,
                         LsaAugmentingPath(
                             [cost |-> cost, u |-> st.u, v |-> st.v,
                              row4col |-> st.row4col],
                             curRow, 0, [it \in 1..nc |-> nc - it + 1],
                             [j \in 1..nc |-> LsaInfinity], st.path, {}, {})))

LsaStart(r, c) ==
    [u |-> [i \in 1..r |-> 0], v |-> [j \in 1..c |-> 0],
     path |-> [j \in 1..c |-> 0], row4col |-> [j \in 1..c |-> 0],
     col4row |-> [i \in 1..r |-> 0]]

LsaPairs(c4r, transposed) ==
    IF transposed THEN {<<c4r[j], j>> : j \in DOMAIN c4r}
                  ELSE {<<i, c4r[i]>> : i \in DOMAIN c4r}

LsaTranspose(cost) ==
    [j \in 1..Len(cost[1]) |-> [i \in 1..Len(cost) |-> cost[i][j]]]

(* The pairs <<row, column>> of the assignment; a matrix with more rows    *)
(* than columns is solved transposed.                                      *)
LinearSumAssignment(cost) ==
    IF Len(cost[1]) < Len(cost)
    THEN LsaPairs(LsaSolve(LsaTranspose(cost), Len(cost[1]), Len(cost), 1,
                           LsaStart(Len(cost[1]), Len(cost))), TRUE)
    ELSE LsaPairs(LsaSolve(cost, Len(cost), Len(cost[1]), 1,
                           LsaStart(Len(cost), Len(cost[1]))), FALSE)


-----------------------------------------------------------------------------
(* Sums and the float rounding.                                            *)

RECURSIVE SumOver(_, _)
SumOver(f, S) ==
    IF S = {} THEN Zero
    ELSE LET k == CHOOSE x \in S : TRUE
         IN  RAdd(f[k], SumOver(f, S \ {k}))

RECURSIVE Pow10(_)
Pow10(k) == IF k <= 0 THEN 1 ELSE 10 * Pow10(k - 1)

(* round(x, p) of a float counted in thousandths, to the nearest multiple  *)
(* of 10^-p (a tie goes to the even multiple).                             *)
Round(n, p) ==
    IF p >= 3
    THEN n
    ELSE LET unit == Pow10(3 - p)
             q == n \div unit
             r == n % unit
         IN  IF 2 * r < unit THEN q * unit
             ELSE IF 2 * r > unit THEN (q + 1) * unit
             ELSE IF q % 2 = 0 THEN q * unit ELSE (q + 1) * unit

-----------------------------------------------------------------------------
(* The scalar comparisons.                                                 *)

IntDiff(e, a, weight, suppressed) ==
    IF IntOf(a) = e.v THEN NO_DIFF
    ELSE ValuesNotEqual(e, a, weight, suppressed)

BoolDiff(e, a, weight, suppressed) ==
    IF a.v = e.v THEN NO_DIFF
    ELSE ValuesNotEqual(e, a, weight, suppressed)

StrDiff(e, a, weight, suppressed) ==
    IF a.v = e.v THEN NO_DIFF
    ELSE ValuesNotEqual(e, a, weight, suppressed)

FloatDiff(e, a, weight, suppressed, cfg) ==
    IF a.v = e.v
    THEN NO_DIFF
    ELSE IF CanRoundedFloat(cfg)
         THEN LET p == FloatPrecision(cfg).v
                  re == Round(e.v, p)
                  ra == Round(a.v, p)
              IN  IF ra = re THEN NO_DIFF
                  ELSE ValuesNotEqual(Float(re), Float(ra), weight, suppressed)
         ELSE ValuesNotEqual(e, a, weight, suppressed)

(* The length diff with the weight scaled by the difference whatever the   *)
(* configuration says.                                                     *)
ListLenDiffScaled(e, a, weight, suppressed, cfg) ==
    IF Len(e.v) = Len(a.v)
    THEN NO_DIFF
    ELSE LengthsNotEqual(Len(e.v), Len(a.v),
                         RMul(weight, RInt(Abs(Len(e.v) - Len(a.v)))), suppressed)

(* Compare._list_len_diff                                                  *)
ListLenDiff(e, a, weight, suppressed, cfg) ==
    LET le == Len(e.v)
        la == Len(a.v)
    IN  IF le = la
        THEN NO_DIFF
        ELSE LET list_weight == IF LengthDiffPenalty(cfg)
                                THEN RMul(weight, RInt(Abs(le - la)))
                                ELSE weight
             IN  LengthsNotEqual(le, la, list_weight, suppressed)

-----------------------------------------------------------------------------
(* The count model and the Result.                                         *)

(* The weighted count that does not descend: a dict counts its keys, any   *)
(* other value counts once.                                                *)
WeightedAttributesCountShallow(o, weight, w) ==
    IF o.t = "dict"
    THEN SumOver([k \in DOMAIN o.v |-> RMul(GetWeight(w, k), weight)], DOMAIN o.v)
    ELSE weight

RECURSIVE WeightedAttributesCount(_, _, _)
WeightedAttributesCount(o, weight, w) ==
    CASE o.t = "dict" ->
           SumOver([k \in DOMAIN o.v |->
                      WeightedAttributesCount(o.v[k], RMul(GetWeight(w, k), weight),
                                              GetNestedWeights(w, k))],
                   DOMAIN o.v)
      [] o.t = "list" ->
           LET nested == GetNestedWeights(w, "_content")
           IN  SumOver([i \in DOMAIN o.v |->
                          WeightedAttributesCount(o.v[i], weight, nested)],
                       DOMAIN o.v)
      [] OTHER -> weight

AttributesCount(o) == WeightedAttributesCount(o, One, NO_WEIGHTS)

(* The failed count that leaves the suppressed errors out.                 *)
RECURSIVE CountFailedUnsuppressed(_, _)
CountFailedUnsuppressed(d, weighted) ==
    IF IsError(d)
    THEN IF d.v.suppressed THEN Zero
         ELSE IF weighted THEN d.v.weight ELSE One
    ELSE SumOver([k \in DOMAIN d.v |-> CountFailedUnsuppressed(d.v[k], weighted)],
                 DOMAIN d.v)

RECURSIVE CountFailed(_, _)
CountFailed(d, weighted) ==
    IF IsError(d)
    THEN IF weighted THEN d.v.weight ELSE One
    ELSE SumOver([k \in DOMAIN d.v |-> CountFailed(d.v[k], weighted)], DOMAIN d.v)

(* The diff of a Result whose every error record is suppressed             *)
NoneDiff == [t |-> "none", v |-> 0]

(* is_suppressed(diff): the dict holds '_suppress': True.  Only an error   *)
(* record holds that key.                                                  *)
IsSuppressedDiff(d) == IsError(d) /\ d.v.suppressed

(* _without_suppressed_errors applied to a field of an error record: a    *)
(* dict payload loses, at every depth, the entries left equal to {}; any   *)
(* other payload is returned as it is.                                     *)
RECURSIVE PayloadWithoutEmpties(_)
PayloadWithoutEmpties(x) ==
    IF x.t = "dict"
    THEN LET g == [k \in DOMAIN x.v |-> PayloadWithoutEmpties(x.v[k])]
             keep == {k \in DOMAIN x.v : g[k] # Dict(EmptyMap)}
         IN  Dict([k \in keep |-> g[k]])
    ELSE x

(* The error record as _without_suppressed_errors returns it: built field  *)
(* by field, a field left equal to {} dropped by _without_empties.         *)
ErrorWithoutEmpties(d) ==
    LET ex == PayloadWithoutEmpties(d.v.expected)
        rc == PayloadWithoutEmpties(d.v.received)
        fields == {"kind", "weight", "suppressed"}
                    \cup (IF ex # Dict(EmptyMap) THEN {"expected"} ELSE {})
                    \cup (IF rc # Dict(EmptyMap) THEN {"received"} ELSE {})
    IN  [t |-> "err",
         v |-> [f \in fields |->
                  CASE f = "kind" -> d.v.kind
                    [] f = "weight" -> d.v.weight
                    [] f = "suppressed" -> d.v.suppressed
                    [] f = "expected" -> ex
                    [] f = "received" -> rc]]

(* Compare._without_suppressed_errors                                      *)
RECURSIVE WithoutSuppressedErrors(_)
WithoutSuppressedErrors(d) ==
    IF IsSuppressedDiff(d)
    THEN NoneDiff
    ELSE IF IsError(d)
         THEN ErrorWithoutEmpties(d)
         ELSE LET keep == {k \in DOMAIN d.v : ~IsSuppressedDiff(d.v[k])}
              IN  Node(WithoutEmpties([k \in keep |->
                                         WithoutSuppressedErrors(d.v[k])]))

(* Compare._create_result                                                  *)
CreateResult(d, e, weight, w) ==
    [diff |-> WithoutSuppressedErrors(d),
     count |-> AttributesCount(e),
     weighted_count |-> WeightedAttributesCount(e, weight, w),
     failed |-> CountFailed(d, FALSE),
     weighted_failed |-> CountFailed(d, TRUE)]

(* Result.similarity                                                       *)
Similarity(r) ==
    IF r.weighted_count = Zero
    THEN Zero
    ELSE RMax(Zero, RDiv(RSub(r.weighted_count, r.weighted_failed),
                         r.weighted_count))


-----------------------------------------------------------------------------
(* The recursive comparison.                                               *)

LCM(a, b) == (a * b) \div GCD(a, b)

RECURSIVE SeqMaxRat(_, _)
SeqMaxRat(f, S) ==
    LET k == CHOOSE x \in S : TRUE
    IN  IF S = {k} THEN f[k] ELSE RMax(f[k], SeqMaxRat(f, S \ {k}))

RECURSIVE SetLCM(_)
SetLCM(S) ==
    IF S = {} THEN 1
    ELSE LET k == CHOOSE x \in S : TRUE IN LCM(k, SetLCM(S \ {k}))

(* The scores themselves taken as costs, on a common denominator: the     *)
(* assignment then minimises the similarity.                               *)
CostMatrixOfScores(S) ==
    LET n == Len(S)
        m == Len(S[1])
        cells == (1..n) \X (1..m)
        den == SetLCM({S[c[1]][c[2]][2] : c \in cells})
    IN  [i \in 1..n |-> [j \in 1..m |-> S[i][j][1] * (den \div S[i][j][2])]]

(* cost_matrix = score_matrix.max() - score_matrix, on a common            *)
(* denominator (the solver's comparisons do not depend on the unit).       *)
CostMatrix(S) ==
    LET n == Len(S)
        m == Len(S[1])
        cells == (1..n) \X (1..m)
        flat == [c \in cells |-> S[c[1]][c[2]]]
        top == SeqMaxRat(flat, cells)
        den == SetLCM({S[c[1]][c[2]][2] : c \in cells})
        scaled(q) == q[1] * (den \div q[2])
    IN  [i \in 1..n |-> [j \in 1..m |-> scaled(RSub(top, S[i][j]))]]

RECURSIVE Diff(_, _, _, _, _, _)
RECURSIVE DictDiff(_, _, _, _, _, _)
RECURSIVE ListDiff(_, _, _, _, _, _)
RECURSIVE ListContentDiff(_, _, _, _, _, _)
RECURSIVE ContentOfPairs(_, _, _, _, _, _, _)
RECURSIVE CalculateSimilarity(_, _, _, _, _)
RECURSIVE GetBoostWeight(_, _, _)

(* Compare._calculate_similarity                                           *)
CalculateSimilarity(e, a, weight, w, cfg) ==
    Similarity(CreateResult(Diff(e, a, weight, w, FALSE, cfg), e, weight, w))

(* The boost taken as the number of attributes of the item, unweighted.    *)
GetBoostWeightOfCount(item, w, cfg) == AttributesCount(item)

(* Compare._get_boost_weight                                               *)
GetBoostWeight(item, w, cfg) ==
    CreateResult(Diff(item, Dict(EmptyMap), One, w, FALSE, cfg), item, One, w).weighted_count

(* The score matrix of _list_content_diff_new, rows for expected           *)
ScoreMatrix(e, a, list_weight, content_weights, cfg) ==
    [i \in 1..Len(e.v) |-> [j \in 1..Len(a.v) |->
        IF e.v[i].t = a.v[j].t
        THEN CalculateSimilarity(e.v[i], a.v[j], list_weight, content_weights, cfg)
        ELSE Zero]]

PairingThreshold(w) ==
    IF "_pairing_threshold" \in DOMAIN w.v THEN w.v["_pairing_threshold"].v ELSE Zero

(* The pairs kept when the comparison with the threshold is turned round.  *)
FilteredPairsBelow(e, a, list_weight, w, cfg) ==
    IF Len(e.v) > 0 /\ Len(a.v) > 0
    THEN UNION {{p \in LinearSumAssignment(CostMatrix(S)) :
                   RLeq(S[p[1]][p[2]], PairingThreshold(w))} :
                S \in {ScoreMatrix(e, a, list_weight, GetNestedWeights(w, "_content"), cfg)}}
    ELSE {}

(* The pairs of _list_content_diff_new that survive the threshold (the     *)
(* score matrix S is bound once)                                           *)
FilteredPairs(e, a, list_weight, w, cfg) ==
    IF Len(e.v) > 0 /\ Len(a.v) > 0
    THEN UNION {{p \in LinearSumAssignment(CostMatrix(S)) :
                   RLeq(PairingThreshold(w), S[p[1]][p[2]])} :
                S \in {ScoreMatrix(e, a, list_weight, GetNestedWeights(w, "_content"), cfg)}}
    ELSE {}

(* The '_content' diff of _list_content_diff_new once the pairs are known: *)
(* the unmatched expected items, the unmatched actual items and the diffs  *)
(* of the pairs, the empty ones dropped.                                   *)
ContentOfPairs(e, a, list_weight, w, suppressed, cfg, filtered_pairs) ==
    LET content_weights == GetNestedWeights(w, "_content")
        missing_item_weight == GetWeight(w, "_missing")
        boost_missing_item_weight == GetBoolean(w, "_boost_missing")
        extra_item_weight == GetWeight(w, "_extra")
        boost_extra_item_weight == GetBoolean(w, "_boost_extra")
        missing(i) ==
            LET i_boost_weight == IF boost_missing_item_weight
                                  THEN GetBoostWeight(e.v[i], content_weights, cfg)
                                  ELSE One
                i_weight == RMul(RMul(list_weight, missing_item_weight), i_boost_weight)
            IN  MissingListItem(e.v[i], Null, i_weight, suppressed)
        extra(j) ==
            LET j_boost_weight == IF boost_extra_item_weight
                                  THEN GetBoostWeight(a.v[j], content_weights, cfg)
                                  ELSE One
                j_weight == RMul(RMul(list_weight, extra_item_weight), j_boost_weight)
            IN  ExtraListItem(Null, a.v[j], j_weight, suppressed)
    IN  CHOOSE d \in
          {Node([k \in {x[1] : x \in kept} |-> (CHOOSE x \in kept : x[1] = k)[2]]) :
             kept \in
               {{x \in {<<IdxOf(i - 1), missing(i)>> :
                          i \in (1..Len(e.v)) \ {p[1] : p \in filtered_pairs}}
                        \cup {<<ExtraOf(j - 1), extra(j)>> :
                                j \in (1..Len(a.v)) \ {p[2] : p \in filtered_pairs}}
                        \cup {<<IdxOf(p[1] - 1),
                                Diff(e.v[p[1]], a.v[p[2]], list_weight, content_weights,
                                     suppressed, cfg)>> : p \in filtered_pairs} :
                   x[2] # NO_DIFF}}} : TRUE

(* Compare._list_content_diff_new                                          *)
ListContentDiff(e, a, list_weight, w, suppressed, cfg) ==
    CHOOSE d \in {ContentOfPairs(e, a, list_weight, w, suppressed, cfg, filtered_pairs) :
                    filtered_pairs \in {FilteredPairs(e, a, list_weight, w, cfg)}} : TRUE

(* Compare._list_diff                                                      *)
ListDiff(e, a, weight, w, suppressed, cfg) ==
    LET content == ListContentDiff(e, a, weight, w, suppressed, cfg)
        length == ListLenDiff(e, a, RMul(weight, GetWeight(w, "_length")),
                              suppressed, cfg)
        keys == {KeyOf("_content")}
                  \cup (IF NeedCompareLength(cfg) THEN {KeyOf("_length")} ELSE {})
    IN  Node(WithoutEmpties([k \in keys |->
                               IF k = KeyOf("_length") THEN length ELSE content]))

(* Compare._dict_diff                                                      *)
DictDiff(e, a, dict_weight, w, suppressed, cfg) ==
    LET missing_item_weight == GetWeight(w, "_missing")
        boost_missing_item_weight == GetBoolean(w, "_boost_missing")
        extra_item_weight == GetWeight(w, "_extra")
        boost_extra_item_weight == GetBoolean(w, "_boost_extra")
        entry(k) ==
            LET k_attr_weight == GetWeight(w, k)
                nested_weights == GetNestedWeights(w, k)
            IN  IF k \notin DOMAIN a.v
                THEN LET k_boost_weight == IF boost_missing_item_weight
                                           THEN GetBoostWeight(e.v[k], nested_weights, cfg)
                                           ELSE One
                         k_weight == RMul(RMul(RMul(dict_weight, k_attr_weight),
                                               missing_item_weight), k_boost_weight)
                     IN  KeyNotExist(Str(k), Null, k_weight, suppressed)
                ELSE IF k \notin DOMAIN e.v
                THEN LET k_boost_weight == IF boost_extra_item_weight
                                           THEN GetBoostWeight(a.v[k], nested_weights, cfg)
                                           ELSE One
                         k_weight == RMul(RMul(RMul(dict_weight, k_attr_weight),
                                               extra_item_weight), k_boost_weight)
                     IN  UnexpectedKey(Null, Str(k), k_weight, suppressed)
                ELSE Diff(e.v[k], a.v[k], RMul(dict_weight, k_attr_weight),
                          nested_weights, suppressed, cfg)
        d == [k \in DOMAIN e.v \cup DOMAIN a.v |-> entry(k)]
    IN  Node(WithoutEmpties([k \in {KeyOf(x) : x \in DOMAIN d} |-> d[k[2]]]))

(* Compare._diff                                                           *)
Diff(e, a, weight, w, suppressed0, cfg) ==
    LET suppressed == suppressed0 \/ IsSuppressed(w)
    IN  IF ~IsInstance(a, e.t)
        THEN TypesNotEqual(e, a, weight, suppressed)
        ELSE CASE e.t = "int" -> IntDiff(e, a, weight, suppressed)
               [] e.t = "str" -> StrDiff(e, a, weight, suppressed)
               [] e.t = "bool" -> BoolDiff(e, a, weight, suppressed)
               [] e.t = "float" -> FloatDiff(e, a, weight, suppressed, cfg)
               [] e.t = "dict" -> DictDiff(e, a, weight, w, suppressed, cfg)
               [] e.t = "list" -> ListDiff(e, a, weight, w, suppressed, cfg)
               [] OTHER -> NO_DIFF


-----------------------------------------------------------------------------
(* The TypeError of _get_weight.  A comparison raises it as soon as it     *)
(* reads, with _get_weight, an entry that is neither a dict nor a number   *)
(* (a bool is an int); nothing catches it.  The operators below walk the   *)
(* calls of _get_weight that a comparison makes and yield the keys whose   *)
(* entry raises.                                                           *)

(* _get_weight(w, key) raises: the key named in the TypeError              *)
InvalidWeight(w, key) ==
    IF key \in DOMAIN w.v /\ w.v[key].t \notin {"spec", "num", "bool"}
    THEN {key}
    ELSE {}

(* The keys that raise in _weighted_attributes_count(o, weight, w)         *)
RECURSIVE CountInvalid(_, _)
CountInvalid(o, w) ==
    IF o.t = "dict"
    THEN UNION {InvalidWeight(w, k) \cup CountInvalid(o.v[k], GetNestedWeights(w, k)) :
                  k \in DOMAIN o.v}
    ELSE IF o.t = "list"
    THEN UNION {CountInvalid(o.v[i], GetNestedWeights(w, "_content")) : i \in DOMAIN o.v}
    ELSE {}

RECURSIVE DiffInvalid(_, _, _, _, _)
RECURSIVE BoostInvalid(_, _, _)
RECURSIVE DictInvalid(_, _, _, _, _)
RECURSIVE ScoreInvalid(_, _, _, _, _)
RECURSIVE UnmatchedInvalid(_, _, _, _, _)
RECURSIVE ListInvalid(_, _, _, _, _)

(* The keys that raise in _get_boost_weight(item, w)                       *)
BoostInvalid(item, w, cfg) ==
    DiffInvalid(item, Dict(EmptyMap), One, w, cfg) \cup CountInvalid(item, w)

(* The keys that raise in _dict_diff(e, a, dict_weight, w, _)              *)
DictInvalid(e, a, dict_weight, w, cfg) ==
    InvalidWeight(w, "_missing") \cup InvalidWeight(w, "_extra")
      \cup UNION {
             IF InvalidWeight(w, k) # {}
             THEN InvalidWeight(w, k)
             ELSE IF k \in DOMAIN e.v /\ k \in DOMAIN a.v
             THEN DiffInvalid(e.v[k], a.v[k], RMul(dict_weight, GetWeight(w, k)),
                              GetNestedWeights(w, k), cfg)
             ELSE IF GetBoolean(w, IF k \in DOMAIN e.v THEN "_boost_missing"
                                                       ELSE "_boost_extra")
             THEN BoostInvalid(IF k \in DOMAIN e.v THEN e.v[k] ELSE a.v[k],
                               GetNestedWeights(w, k), cfg)
             ELSE {} :
             k \in DOMAIN e.v \cup DOMAIN a.v}

(* The keys that raise while the score matrix is filled: the pairs of the  *)
(* same type go through _calculate_similarity                              *)
ScoreInvalid(e, a, list_weight, content_weights, cfg) ==
    UNION {IF e.v[p[1]].t = a.v[p[2]].t
           THEN DiffInvalid(e.v[p[1]], a.v[p[2]], list_weight, content_weights, cfg)
                  \cup CountInvalid(e.v[p[1]], content_weights)
           ELSE {} :
           p \in (DOMAIN e.v) \X (DOMAIN a.v)}

(* The keys that raise in the boosts of the unmatched items, once the      *)
(* score matrix is filled                                                  *)
UnmatchedInvalid(e, a, w, cfg, pairs) ==
    UNION {BoostInvalid(item, GetNestedWeights(w, "_content"), cfg) :
             item \in {e.v[i] : i \in {x \in (DOMAIN e.v) \ {p[1] : p \in pairs} :
                                         GetBoolean(w, "_boost_missing")}}
                        \cup {a.v[j] : j \in {x \in (DOMAIN a.v) \ {p[2] : p \in pairs} :
                                                GetBoolean(w, "_boost_extra")}}}

(* The first of the sets, in the order of the calls, that is not empty     *)
FirstRaised(s1, s2, s3, s4) ==
    IF s1 # {} THEN s1 ELSE IF s2 # {} THEN s2 ELSE IF s3 # {} THEN s3 ELSE s4

(* The keys that raise in _list_diff(e, a, weight, w, _)                   *)
ListInvalid(e, a, weight, w, cfg) ==
    FirstRaised(IF NeedCompareLength(cfg) THEN InvalidWeight(w, "_length") ELSE {},
                InvalidWeight(w, "_missing") \cup InvalidWeight(w, "_extra"),
                ScoreInvalid(e, a, weight, GetNestedWeights(w, "_content"), cfg),
                UnmatchedInvalid(e, a, w, cfg, FilteredPairs(e, a, weight, w, cfg)))

(* The keys that raise in _diff(e, a, weight, w, _)                        *)
DiffInvalid(e, a, weight, w, cfg) ==
    IF ~IsInstance(a, e.t) THEN {}
    ELSE IF e.t = "dict" THEN DictInvalid(e, a, weight, w, cfg)
    ELSE IF e.t = "list" THEN ListInvalid(e, a, weight, w, cfg)
    ELSE {}

-----------------------------------------------------------------------------
(* The public operations.                                                  *)

(* Compare.prepare: a deep copy passed through Ignore.transform; the       *)
(* instance holds no ignore rules (NO_RULES), which leaves a value as is.  *)
Prepare(x) == x

(* Compare.check, without the report                                       *)
CheckDiff(e, a, w, cfg) ==
    Diff(Prepare(e), Prepare(a), GetRootWeight(w), w, IsSuppressed(w), cfg)

(* Compare.calculate_score                                                 *)
Score(e, a, w, cfg) ==
    CreateResult(CheckDiff(e, a, w, cfg), e, GetRootWeight(w), w)

(* The keys that raise in check and in calculate_score, which goes on to   *)
(* count the attributes of expected                                        *)
CheckInvalid(e, a, w, cfg) ==
    DiffInvalid(Prepare(e), Prepare(a), GetRootWeight(w), w, cfg)

ScoreInvalidKeys(e, a, w, cfg) ==
    UNION {IF keys # {} THEN keys ELSE CountInvalid(e, w) :
             keys \in {CheckInvalid(e, a, w, cfg)}}

(* The TypeError that names a key                                          *)
Raised(keys) == [t |-> "TypeError", v |-> CHOOSE k \in keys : TRUE]

-----------------------------------------------------------------------------
(* Bounds of the inputs.                                                   *)

MaxInt == 1
MaxLen == 2
MaxWeight == 2

Keys == {"a", "b"}

SeqsUpTo(S, n) == UNION {[1..k -> S] : k \in 0..n}
MapsOver(K, S) == UNION {[D -> S] : D \in SUBSET K}

(* Scalars that fill the containers, and all scalars: 1.234 and 1.23 are   *)
(* equal once rounded to two places, 1.0 and 1 differ in type only.        *)
AtomValues == {Null, Bool(TRUE), Float(1000), Str("x")} \cup {Int_(n) : n \in 0..MaxInt}
ScalarValues == AtomValues \cup {Bool(FALSE), Float(1234), Float(1230), Str("y")}

FlatLists == {List(s) : s \in SeqsUpTo(AtomValues, MaxLen)}
FlatDicts == {Dict(f) : f \in MapsOver(Keys, AtomValues)}
FlatValues == ScalarValues \cup FlatLists \cup FlatDicts

(* Items of nested containers: the empty containers, containers that hold  *)
(* only empty containers, scalars and small containers of scalars.  The    *)
(* mixed lists hold three items of different types.                        *)
NestedItems ==
    {List(<<>>), Dict(EmptyMap), List(<<List(<<>>)>>), Dict("a" :> List(<<>>)),
     Int_(1), Str("x"), Float(1234),
     List(<<Int_(0), Int_(1)>>), Dict("a" :> Int_(1))}
MixedLists == {List(s) : s \in [1..3 -> {List(<<>>), Dict(EmptyMap), Int_(1)}]}
NestedLists == {List(s) : s \in SeqsUpTo(NestedItems, MaxLen)} \cup MixedLists
NestedDicts == {Dict(f) : f \in MapsOver(Keys, NestedItems)}
NestedValues == FlatValues \cup NestedLists \cup NestedDicts

(* DEFAULT_CONFIG, the configuration of the tests, and one with neither    *)
(* rounding nor length check.                                              *)
DEFAULT_CONFIG ==
    [allow_round |-> Int_(2), check_length |-> Bool(TRUE), length_diff_penalty |-> Null]
TestConfig ==
    [allow_round |-> Int_(2), check_length |-> Bool(TRUE), length_diff_penalty |-> Bool(TRUE)]
BareConfig ==
    [allow_round |-> Null, check_length |-> Bool(FALSE), length_diff_penalty |-> Null]
Configs == {DEFAULT_CONFIG, TestConfig, BareConfig}

-----------------------------------------------------------------------------
(* The state machine: one Compare instance (its weights and configuration) *)
(* and one pair of inputs; check and calculate_score may be called on them *)
(* in any order.                                                           *)

Unset == [t |-> "unset", v |-> 0]

InitWith(inputs) ==
    /\ \E x \in inputs :
         /\ expected = x.e
         /\ actual = x.a
         /\ weights = x.w
         /\ config = x.c
    /\ pc = "ready"
    /\ diff = Unset
    /\ result = Unset
    /\ reported = {}

(* Compare._need_write_to_console                                          *)
NeedWriteToConsole(cfg) == ConfigGet(cfg, "output.console") = Bool(TRUE)

(* Compare._need_write_to_file                                             *)
NeedWriteToFile(cfg) == ConfigGet(cfg, "output.file.name").t = "str"

(* Compare.report: the sinks the diff is written to                        *)
Report(cfg) ==
    (IF NeedWriteToConsole(cfg) THEN {"console"} ELSE {})
      \cup (IF NeedWriteToFile(cfg) THEN {"file"} ELSE {})

(* The configuration after Compare.report: _write_to_file pops 'name' from *)
(* the file options that Config.get hands out.                             *)
AfterReport(cfg) ==
    IF NeedWriteToFile(cfg)
    THEN [cfg EXCEPT !.file = [k \in DOMAIN cfg.file \ {"name"} |-> cfg.file[k]]]
    ELSE cfg

Check ==
    /\ \E keys \in {CheckInvalid(expected, actual, weights, config)} :
         IF keys # {}
         THEN /\ diff' = Raised(keys)
              /\ pc' = "raised"
              /\ reported' = {}
              /\ config' = config
         ELSE /\ diff' = CheckDiff(expected, actual, weights, config)
              /\ pc' = "checked"
              /\ reported' = Report(config)
              /\ config' = AfterReport(config)
    /\ UNCHANGED <<expected, actual, weights, result>>

CalculateScore ==
    /\ \E raised \in {CheckInvalid(expected, actual, weights, config)} :
         IF raised # {}
         THEN /\ diff' = Raised(raised)
              /\ result' = Unset
              /\ pc' = "raised"
              /\ reported' = {}
              /\ config' = config
         ELSE /\ reported' = Report(config)
              /\ config' = AfterReport(config)
              /\ IF CountInvalid(expected, weights) # {}
                 THEN /\ diff' = Raised(CountInvalid(expected, weights))
                      /\ result' = Unset
                      /\ pc' = "raised"
                 ELSE /\ diff' = CheckDiff(expected, actual, weights, config)
                      /\ result' = CreateResult(diff', expected, GetRootWeight(weights),
                                                weights)
                      /\ pc' = "scored"
    /\ UNCHANGED <<expected, actual, weights>>

Next == Check \/ CalculateScore

(* Every pair of flat values, default weights, default configuration.      *)
GeneralInputs ==
    {[e |-> e, a |-> a, w |-> w, c |-> c] :
        e \in FlatValues, a \in FlatValues, w \in {NO_WEIGHTS}, c \in {DEFAULT_CONFIG}}

Init == InitWith(GeneralInputs)

Spec == Init /\ [][Next]_vars

(* A value compared with itself, default weights, every configuration.     *)
ReflexiveInputs ==
    {[e |-> v, a |-> v, w |-> NO_WEIGHTS, c |-> c] : v \in NestedValues, c \in Configs}

InitReflexive == InitWith(ReflexiveInputs)

SpecReflexive == InitReflexive /\ [][Next]_vars

(* Weight specifications: the numbers a specification may hold, the values *)
(* weighed, and specifications that weigh the root, a key, the items of a  *)
(* list, the length, the missing and the extra items, alone and nested.    *)
WeightNumbers == {RInt(n) : n \in (-1)..MaxWeight} \cup {Rat(1, 2)}

Suppress == WSpec("_suppress" :> Flag(TRUE))
WeightOf(n) == WSpec("_weight" :> Num(n))

WeightedAtoms == {Int_(n) : n \in 0..MaxInt}
WeightedLists ==
    {List(<<>>), List(<<Int_(0)>>), List(<<Int_(1)>>), List(<<Int_(0), Int_(1)>>),
     List(<<Int_(1), Int_(0)>>)}
WeightedValues ==
    WeightedAtoms \cup WeightedLists
      \cup {Dict(f) : f \in MapsOver(Keys, WeightedAtoms)}
      \cup {Dict("a" :> x) : x \in {List(<<>>), List(<<Int_(0)>>), List(<<Int_(1)>>),
                                    Dict("b" :> Int_(0)), Dict("b" :> Int_(1))}}
      \cup {List(<<Dict("a" :> x)>>) : x \in WeightedAtoms}

WeightSpecs ==
    {NO_WEIGHTS, Suppress, WSpec("a" :> Suppress), WSpec("_content" :> Suppress),
     WSpec("a" :> WSpec("_content" :> Suppress)),
     WSpec(("_missing" :> Num(RInt(MaxWeight))) @@ ("_boost_missing" :> Flag(TRUE))),
     WSpec(("_extra" :> Num(RInt(MaxWeight))) @@ ("_boost_extra" :> Flag(TRUE)))}
      \cup {WSpec(k :> Num(n)) :
              k \in {"_weight", "a", "_missing", "_extra", "_length"}, n \in WeightNumbers}
      \cup {WSpec(k :> WeightOf(n)) : k \in {"a", "_content"}, n \in WeightNumbers}
      \cup {WSpec(("_weight" :> Num(RInt(MaxWeight))) @@ ("a" :> Num(n))) : n \in WeightNumbers}
      \cup {WSpec("a" :> WSpec(("_weight" :> Num(n)) @@ ("b" :> Num(RInt(MaxWeight))))) :
              n \in WeightNumbers}
      \cup {WSpec("_content" :> WSpec("a" :> Num(n))) : n \in WeightNumbers}

WeightedInputs ==
    {[e |-> e, a |-> a, w |-> w, c |-> DEFAULT_CONFIG] :
        e \in WeightedValues, a \in WeightedValues, w \in WeightSpecs}

InitWeighted == InitWith(WeightedInputs)

SpecWeighted == InitWeighted /\ [][Next]_vars

(* Lists whose items come back in another order, with items added: an      *)
(* injection of the positions of s into those of t that keeps the items.   *)
IsPermutationPlus(s, t) ==
    \E f \in [DOMAIN s -> DOMAIN t] :
        /\ \A i, j \in DOMAIN s : i # j => f[i] # f[j]
        /\ \A i \in DOMAIN s : t[f[i]] = s[i]

PermutedItems == {List(<<>>), Dict(EmptyMap), Int_(1), Dict("a" :> Int_(0))}

PermutedInputs ==
    UNION {{[e |-> List(s), a |-> List(t), w |-> NO_WEIGHTS, c |-> DEFAULT_CONFIG] :
              t \in {u \in SeqsUpTo(PermutedItems, MaxLen + 1) : IsPermutationPlus(s, u)}} :
           s \in SeqsUpTo(PermutedItems, MaxLen)}

InitPermuted == InitWith(PermutedInputs)

SpecPermuted == InitPermuted /\ [][Next]_vars

(* Two lists under each pairing threshold, their lengths summing to at     *)
(* most MaxLen + 1.  The long list is longer than the number of leaves its *)
(* removal produces; the two dicts agree on one key of two.                *)
Thresholds == {Zero, Rat(1, 2), One}
WithThreshold(t) == WSpec("_pairing_threshold" :> Num(t))

LongList == List([i \in 1..(MaxLen + 1) |-> Int_(1)])
PairingItems ==
    {List(<<>>), LongList,
     Dict(("a" :> Int_(0)) @@ ("b" :> Int_(0))), Dict(("a" :> Int_(0)) @@ ("b" :> Int_(1)))}

PairingInputs ==
    {[e |-> List(x[1]), a |-> List(x[2]), w |-> WithThreshold(th), c |-> DEFAULT_CONFIG] :
        x \in {y \in SeqsUpTo(PairingItems, MaxLen) \X SeqsUpTo(PairingItems, MaxLen) :
                 Len(y[1]) + Len(y[2]) <= MaxLen + 1},
        th \in Thresholds}

InitPairing == InitWith(PairingInputs)

SpecPairing == InitPairing /\ [][Next]_vars

(* Two dicts over the keys, their values scalars and containers, empty     *)
(* ones included; the key 'a' unweighted, weighted or suppressed.          *)
DictItems ==
    {Int_(n) : n \in 0..MaxInt}
      \cup {Null, List(<<>>), List(<<Int_(1)>>), Dict(EmptyMap), Dict("a" :> Int_(1))}
DictWeights == {NO_WEIGHTS, WSpec("a" :> Num(RInt(MaxWeight))), WSpec("a" :> Suppress)}

DictInputs ==
    {[e |-> Dict(f), a |-> Dict(g), w |-> w, c |-> DEFAULT_CONFIG] :
        f \in MapsOver(Keys, DictItems), g \in MapsOver(Keys, DictItems),
        w \in DictWeights}

InitDict == InitWith(DictInputs)

SpecDict == InitDict /\ [][Next]_vars

(* Two lists of ints of every pair of lengths, under the configurations    *)
(* and one that checks lengths with the penalty switched off, the root and *)
(* the '_length' entry weighted.                                           *)
NoPenaltyConfig ==
    [allow_round |-> Int_(2), check_length |-> Bool(TRUE), length_diff_penalty |-> Bool(FALSE)]
LengthWeights ==
    {NO_WEIGHTS}
      \cup {WSpec("_length" :> Num(n)) : n \in WeightNumbers}
      \cup {WSpec(("_weight" :> Num(RInt(MaxWeight))) @@ ("_length" :> Num(n))) :
              n \in WeightNumbers}

LengthItems == {Int_(0), Str("x")}

LengthInputs ==
    {[e |-> List(s), a |-> List(t), w |-> w, c |-> c] :
        s \in SeqsUpTo(LengthItems, MaxLen), t \in SeqsUpTo(LengthItems, MaxLen),
        w \in LengthWeights, c \in Configs \cup {NoPenaltyConfig}}

InitLength == InitWith(LengthInputs)

SpecLength == InitLength /\ [][Next]_vars

(* Two lists of a scalar and two dicts, their lengths summing to at most   *)
(* MaxLen + 1, under weights that price missing and extra items apart,     *)
(* with and without the boost, the root weight and a threshold that breaks *)
(* every imperfect pair; the key 'a' of an item weighs MaxWeight.          *)
PenaltyItems ==
    {Int_(1), Dict("a" :> Int_(1)), Dict(("a" :> Int_(0)) @@ ("b" :> Int_(1)))}
PenaltyWeights ==
    {NO_WEIGHTS}
      \cup {WSpec(("_weight" :> Num(r)) @@ ("_missing" :> Num(RInt(MaxWeight + 1)))
                    @@ ("_boost_missing" :> Flag(b)) @@ ("_extra" :> Num(Rat(1, 2)))
                    @@ ("_boost_extra" :> Flag(b))
                    @@ ("_content" :> WSpec("a" :> Num(RInt(MaxWeight))))
                    @@ ("_pairing_threshold" :> Num(t))) :
              r \in {One, RInt(MaxWeight)}, b \in BOOLEAN, t \in {Zero, One}}

PenaltyInputs ==
    {[e |-> List(x[1]), a |-> List(x[2]), w |-> w, c |-> DEFAULT_CONFIG] :
        x \in {y \in SeqsUpTo(PenaltyItems, MaxLen) \X SeqsUpTo(PenaltyItems, MaxLen) :
                 Len(y[1]) + Len(y[2]) <= MaxLen + 1},
        w \in PenaltyWeights}

InitPenalty == InitWith(PenaltyInputs)

SpecPenalty == InitPenalty /\ [][Next]_vars

(* The weighted values and values that hold null or a list in a list, as   *)
(* expected, against an int, a list and a dict, under every weight spec.   *)
CountValues ==
    WeightedValues
      \cup {Null, Dict("a" :> Null), List(<<Null, Int_(0)>>), List(<<List(<<Int_(1)>>)>>),
            Dict(("a" :> List(<<Dict("b" :> Int_(0))>>)) @@ ("b" :> Null))}

CountInputs ==
    {[e |-> e, a |-> a, w |-> w, c |-> DEFAULT_CONFIG] :
        e \in CountValues,
        a \in {Int_(0), List(<<Int_(1)>>), Dict("a" :> Int_(0))},
        w \in WeightSpecs}

InitCount == InitWith(CountInputs)

SpecCount == InitCount /\ [][Next]_vars

(* Weight specs with one entry that is neither a number nor a nested spec  *)
(* (the string 'x'): under a data key, under a control key, in a nested    *)
(* spec and in a '_content' spec; values that hold the key and values that *)
(* do not; with and without the length check.                              *)
InvalidEntry == Str("x")
InvalidSpecs ==
    {WSpec(k :> InvalidEntry) : k \in {"a", "b", "_content", "_missing", "_extra", "_length"}}
      \cup {WSpec("a" :> WSpec("b" :> InvalidEntry)),
            WSpec("_content" :> WSpec("a" :> InvalidEntry)),
            WSpec(("_boost_missing" :> Flag(TRUE))
                    @@ ("_content" :> WSpec("a" :> InvalidEntry)))}
InvalidValues ==
    {Int_(0), Dict(EmptyMap), Dict("a" :> Int_(0)), Dict("b" :> Int_(0)),
     Dict("a" :> Dict("b" :> Int_(0))), List(<<>>), List(<<Int_(0)>>),
     List(<<Dict("a" :> Int_(0))>>)}

InvalidInputs ==
    {[e |-> e, a |-> a, w |-> w, c |-> c] :
        e \in InvalidValues, a \in InvalidValues, w \in InvalidSpecs,
        c \in {DEFAULT_CONFIG, BareConfig}}

InitInvalid == InitWith(InvalidInputs)

SpecInvalid == InitInvalid /\ [][Next]_vars

(* Floats (counted in thousandths) that are equal, equal after rounding to *)
(* some precision only, and different at every precision, under            *)
(* configurations whose 'allow_round' is an int, absent, or present but    *)
(* not an int (a float, a bool, a string).  The ties among them (1.125,    *)
(* 1.375 at two places) are exact in binary.                               *)
FloatValues ==
    {Float(n) : n \in {1000, 1125, 1200, 1230, 1234, 1236, 1300, 1375, -1234, -1230}}
RoundSettings ==
    {Int_(p) : p \in 0..3} \cup {Null, Float(2000), Bool(TRUE), Str("2")}
FloatConfigs ==
    {[allow_round |-> r, check_length |-> Bool(TRUE), length_diff_penalty |-> Null] :
        r \in RoundSettings}
FloatInputs ==
    {[e |-> e, a |-> a, w |-> w, c |-> c] :
        e \in FloatValues, a \in FloatValues,
        w \in {NO_WEIGHTS, WeightOf(RInt(MaxWeight))}, c \in FloatConfigs}

InitFloat == InitWith(FloatInputs)

SpecFloat == InitFloat /\ [][Next]_vars

(* Two lists of up to MaxLen + 2 items together, of an int and two dicts   *)
(* that differ in one key of two (similarities 0, 1/2 and 1), with no      *)
(* threshold and with each threshold.                                      *)
PartitionItems ==
    {Int_(0), Dict(("a" :> Int_(0)) @@ ("b" :> Int_(0))),
     Dict(("a" :> Int_(0)) @@ ("b" :> Int_(1)))}
PartitionInputs ==
    {[e |-> List(x[1]), a |-> List(x[2]), w |-> w, c |-> DEFAULT_CONFIG] :
        x \in {y \in SeqsUpTo(PartitionItems, MaxLen) \X SeqsUpTo(PartitionItems, MaxLen) :
                 Len(y[1]) + Len(y[2]) <= MaxLen + 2},
        w \in {NO_WEIGHTS} \cup {WithThreshold(th) : th \in Thresholds}}

InitPartition == InitWith(PartitionInputs)

SpecPartition == InitPartition /\ [][Next]_vars

(* Two lists of up to MaxLen + 2 items together, of dicts whose pairwise   *)
(* similarities are 0, 1/2 and 1 and for which the best partner of each    *)
(* row taken in turn is not the best matching, the key 'a' of the items    *)
(* unweighted and weighted.                                                *)
OptimalExpected ==
    {Dict(("a" :> Int_(0)) @@ ("b" :> Int_(0))), Dict(("a" :> Str("x")) @@ ("b" :> Int_(1)))}
OptimalActual ==
    {Dict(("a" :> Int_(0)) @@ ("b" :> Int_(0))), Dict(("a" :> Int_(0)) @@ ("b" :> Int_(1))),
     Dict(("a" :> Int_(1)) @@ ("b" :> Int_(0)))}
OptimalWeights ==
    {NO_WEIGHTS, WSpec("_content" :> WSpec("a" :> Num(RInt(MaxWeight))))}
OptimalInputs ==
    {[e |-> List(x[1]), a |-> List(x[2]), w |-> w, c |-> DEFAULT_CONFIG] :
        x \in {y \in SeqsUpTo(OptimalExpected, MaxLen) \X SeqsUpTo(OptimalActual, MaxLen) :
                 Len(y[1]) + Len(y[2]) <= MaxLen + 2},
        w \in OptimalWeights}

InitOptimal == InitWith(OptimalInputs)

SpecOptimal == InitOptimal /\ [][Next]_vars

(* Values with parts that are equal and parts that differ: ints, lists and *)
(* dicts, containers nested two deep, with and without the length check.   *)
PruningItems ==
    {Int_(0), Int_(1), List(<<Int_(0)>>), Dict(EmptyMap),
     Dict("a" :> List(<<Int_(0)>>)), List(<<Dict("a" :> Int_(0)), Int_(1)>>)}
PruningValues ==
    PruningItems
      \cup {Dict(f) : f \in MapsOver(Keys, PruningItems)}
      \cup {List(s) : s \in SeqsUpTo({Int_(0), List(<<Int_(0)>>), Dict("a" :> Int_(0))},
                                     MaxLen)}
PruningInputs ==
    {[e |-> e, a |-> a, w |-> NO_WEIGHTS, c |-> c] :
        e \in PruningValues, a \in PruningValues, c \in {DEFAULT_CONFIG, BareConfig}}

InitPruning == InitWith(PruningInputs)

SpecPruning == InitPruning /\ [][Next]_vars

(* Values whose diffs hold error records with empty payloads (a missing or *)
(* extra list item that is {} or holds {}), under no suppression, the root *)
(* suppressed, the key 'a' suppressed and the list items suppressed.       *)
FilterItems ==
    {Int_(0), Dict(EmptyMap), Dict("a" :> Dict(EmptyMap)), Dict("a" :> Int_(0))}
FilterValues ==
    {Int_(0), Int_(1)}
      \cup {List(s) : s \in SeqsUpTo(FilterItems, MaxLen)}
      \cup {Dict(f) : f \in MapsOver(Keys, {Int_(0), Int_(1), List(<<Dict(EmptyMap)>>)})}
FilterWeights ==
    {NO_WEIGHTS, Suppress, WSpec("a" :> Suppress), WSpec("_content" :> Suppress)}
FilterInputs ==
    {[e |-> e, a |-> a, w |-> w, c |-> DEFAULT_CONFIG] :
        e \in FilterValues, a \in FilterValues, w \in FilterWeights}

InitFilter == InitWith(FilterInputs)

SpecFilter == InitFilter /\ [][Next]_vars

(* Configurations with an output section: the console on or off, the file  *)
(* options with a name or with none; values and weights for which check    *)
(* returns a diff, raises, or returns and lets calculate_score raise.       *)
FileOptions(name) == ("name" :> name) @@ ("indent" :> Int_(4))
ReportConfigs ==
    {[allow_round |-> Int_(2), check_length |-> Bool(TRUE), length_diff_penalty |-> Null,
      console |-> Bool(c), file |-> FileOptions(n)] :
        c \in BOOLEAN, n \in {Null, Str("out.json")}}
ReportValues ==
    {Int_(n) : n \in 0..MaxInt}
      \cup {List(<<>>), List(<<Int_(0)>>), List(<<Dict("a" :> Int_(0))>>),
            Dict("a" :> Int_(0)), Dict("b" :> Int_(0))}
ReportInputs ==
    {[e |-> e, a |-> a, w |-> w, c |-> c] :
        e \in ReportValues, a \in ReportValues,
        w \in {NO_WEIGHTS, WSpec("_content" :> WSpec("a" :> InvalidEntry))},
        c \in ReportConfigs}

InitReport == InitWith(ReportInputs)

SpecReport == InitReport /\ [][Next]_vars

(* Two lists of up to MaxLen + 1 items together, of scalars and dicts of   *)
(* which several score the same against each other (an int, a str and a    *)
(* bool score 0 against one another, as two dicts with no equal value do), *)
(* unweighted, with a boosted or a weighted missing item, with a pairing   *)
(* threshold, and with the root weight 0.                                  *)
TieItems ==
    {Int_(0), Int_(1), Str("x"), Bool(TRUE),
     Dict(("a" :> Int_(0)) @@ ("b" :> Int_(0))), Dict(("a" :> Int_(1)) @@ ("b" :> Int_(1)))}
TieWeights ==
    {NO_WEIGHTS, WSpec("_boost_missing" :> Flag(TRUE)),
     WSpec("_missing" :> Num(RInt(MaxWeight))), WithThreshold(Rat(1, 2)),
     WSpec("_weight" :> Num(Zero))}
TieInputs ==
    {[e |-> List(x[1]), a |-> List(x[2]), w |-> w, c |-> DEFAULT_CONFIG] :
        x \in {y \in SeqsUpTo(TieItems, MaxLen) \X SeqsUpTo(TieItems, MaxLen) :
                 Len(y[1]) + Len(y[2]) <= MaxLen + 1},
        w \in TieWeights}

InitTie == InitWith(TieInputs)

SpecTie == InitTie /\ [][Next]_vars

(* Lists of up to MaxLen + 1 items together, and dicts, compared under     *)
(* weight specifications that hold a '_suppress' flag at the root, on the  *)
(* list items, on the key 'a' of the items or on the key 'a' of a dict,    *)
(* alone and next to weights and boosts that decide the pairing.           *)
SuppressItems ==
    {Int_(0), Dict(("a" :> Int_(0)) @@ ("b" :> Int_(0))),
     Dict(("a" :> Int_(1)) @@ ("b" :> Int_(0))), Dict(("a" :> Int_(0)) @@ ("b" :> Int_(1)))}
SuppressValues ==
    {<<List(y[1]), List(y[2])>> :
        y \in {z \in SeqsUpTo(SuppressItems, MaxLen) \X SeqsUpTo(SuppressItems, MaxLen) :
                 Len(z[1]) + Len(z[2]) <= MaxLen + 1}}
      \cup ({Dict("a" :> Int_(0)), Dict(("a" :> Int_(0)) @@ ("b" :> Int_(0)))}
              \X {Dict("a" :> Int_(1)), Dict("b" :> Int_(0))})
SuppressWeights ==
    {Suppress, WSpec("_suppress" :> Flag(FALSE)), WSpec("a" :> Suppress),
     WSpec("_content" :> Suppress), WSpec("_content" :> WSpec("a" :> Suppress)),
     WSpec(("_suppress" :> Flag(TRUE)) @@ ("_boost_missing" :> Flag(TRUE))),
     WSpec(("_suppress" :> Flag(TRUE))
             @@ ("_content" :> WSpec("a" :> Num(RInt(MaxWeight))))),
     WSpec("_content" :> WSpec(("_suppress" :> Flag(TRUE))
                                 @@ ("a" :> Num(RInt(MaxWeight))))),
     WSpec("_content" :> WSpec("a" :> WSpec(("_suppress" :> Flag(TRUE))
                                              @@ ("_weight" :> Num(RInt(MaxWeight))))))}
SuppressInputs ==
    {[e |-> x[1], a |-> x[2], w |-> w, c |-> DEFAULT_CONFIG] :
        x \in SuppressValues, w \in SuppressWeights}

InitSuppress == InitWith(SuppressInputs)

SpecSuppress == InitSuppress /\ [][Next]_vars

(* Lists of up to MaxLen + 1 dicts together, and dicts, under weights that *)
(* decide the pairing, boost and weigh the missing items, weigh the length *)
(* and set a pairing threshold, each with no root weight and with the root *)
(* weights 1/2 and MaxWeight with the length difference penalised, and    *)
(* with no root weight without the penalty.                                *)
ScaleItems ==
    {Dict(("a" :> Int_(0)) @@ ("b" :> Int_(0))), Dict(("a" :> Int_(1)) @@ ("b" :> Int_(0))),
     Dict(("a" :> Int_(0)) @@ ("b" :> Int_(1)))}
ScaleValues ==
    {<<List(y[1]), List(y[2])>> :
        y \in {z \in SeqsUpTo(ScaleItems, MaxLen) \X SeqsUpTo(ScaleItems, MaxLen) :
                 Len(z[1]) + Len(z[2]) <= MaxLen + 1}}
      \cup (ScaleItems \X {Dict("a" :> Int_(1)), Dict(("b" :> Int_(0)) @@ ("c" :> Int_(0)))})
ScaleBases ==
    {NO_WEIGHTS, WSpec("a" :> Num(RInt(MaxWeight))),
     WSpec("_content" :> WSpec("a" :> Num(RInt(MaxWeight)))),
     WSpec(("_missing" :> Num(RInt(MaxWeight))) @@ ("_boost_missing" :> Flag(TRUE))),
     WSpec(("_length" :> Num(Rat(1, 2))) @@ ("_pairing_threshold" :> Num(Rat(1, 2))))}
WithRootWeight(w, n) == WSpec(("_weight" :> Num(n)) @@ w.v)
ScaleWeights ==
    ScaleBases \cup {WithRootWeight(w, n) : w \in ScaleBases, n \in {Rat(1, 2), RInt(MaxWeight)}}
ScaleInputs ==
    {[e |-> x[1], a |-> x[2], w |-> w, c |-> TestConfig] :
        x \in ScaleValues, w \in ScaleWeights}
      \cup {[e |-> x[1], a |-> x[2], w |-> w, c |-> DEFAULT_CONFIG] :
               x \in ScaleValues, w \in ScaleBases}

InitScale == InitWith(ScaleInputs)

SpecScale == InitScale /\ [][Next]_vars

-----------------------------------------------------------------------------
(* C1: reflexivity of the diff.  For every value v (scalars, containers    *)
(* nested from them, empty containers, lists mixing several types; floats  *)
(* finite) and the default weights, check(v, v) returns NO_DIFF.           *)
C1_DiffReflexive ==
    (pc = "checked" /\ expected = actual /\ weights = NO_WEIGHTS) => diff = NO_DIFF

(* check has run on a list that mixes an empty list, an empty dict and an  *)
(* int with itself.                                                        *)
C1_Witness ==
    /\ pc = "checked"
    /\ expected = List(<<List(<<>>), Dict(EmptyMap), Int_(1)>>)
    /\ actual = expected
    /\ diff = NO_DIFF

(* C2: reflexivity of the score.  For every value v, the empty containers  *)
(* included, and the default weights, calculate_score(v, v).similarity is  *)
(* 1.0, and so is the pairwise similarity the list matcher computes for    *)
(* each item of v against itself.                                          *)
C2_ScoreReflexive ==
    (pc = "scored" /\ expected = actual /\ weights = NO_WEIGHTS) =>
        /\ Similarity(result) = One
        /\ expected.t = "list" =>
             \A i \in DOMAIN expected.v :
                 CalculateSimilarity(expected.v[i], actual.v[i], One,
                                     GetNestedWeights(weights, "_content"),
                                     config) = One

(* C3: the similarity bound.  For every expected and actual value and      *)
(* every weight specification, 0 <= Result.similarity <= 1, and the        *)
(* similarity is 0 whenever weighted_failed > weighted_count.              *)
C3_SimilarityBound ==
    pc = "scored" =>
        /\ RLeq(Zero, Similarity(result))
        /\ RLeq(Similarity(result), One)
        /\ RLess(result.weighted_count, result.weighted_failed) =>
             Similarity(result) = Zero

(* The '_content' part of the diff of two lists, as a function from keys.  *)
ContentOf(d) ==
    IF d.t = "node" /\ KeyOf("_content") \in DOMAIN d.v
    THEN d.v[KeyOf("_content")].v
    ELSE EmptyMap

(* C4: order-invariance of the list pairing.  If actual holds the items of *)
(* expected in any order plus k more, the '_content' part of the diff      *)
(* holds exactly k ExtraListItem leaves, keyed 'extra_<j>' for positions j *)
(* of added items, and nothing else.                                       *)
C4_OrderInvariance ==
    (/\ pc = "checked"
     /\ weights = NO_WEIGHTS
     /\ expected.t = "list" /\ actual.t = "list"
     /\ IsPermutationPlus(expected.v, actual.v)) =>
        LET content == ContentOf(diff)
        IN  /\ \A k \in DOMAIN content :
                  /\ k[1] = "extra"
                  /\ IsError(content[k])
                  /\ content[k].v.kind = "ExtraListItem"
            /\ Cardinality(DOMAIN content) = Len(actual.v) - Len(expected.v)
            /\ \E f \in [DOMAIN expected.v -> DOMAIN actual.v] :
                  /\ \A i, j \in DOMAIN expected.v : i # j => f[i] # f[j]
                  /\ \A i \in DOMAIN expected.v : actual.v[f[i]] = expected.v[i]
                  /\ DOMAIN content =
                       {ExtraOf(j - 1) : j \in DOMAIN actual.v \ {f[i] : i \in DOMAIN expected.v}}

(* The number of MissingListItem and ExtraListItem leaves anywhere in a    *)
(* diff, and the number of those that lie directly in its '_content'.      *)
RECURSIVE ListItemLeaves(_)
ListItemLeaves(d) ==
    IF IsError(d)
    THEN IF d.v.kind \in {"MissingListItem", "ExtraListItem"} THEN One ELSE Zero
    ELSE SumOver([k \in DOMAIN d.v |-> ListItemLeaves(d.v[k])], DOMAIN d.v)

OwnListItemLeaves(d) ==
    Cardinality({k \in DOMAIN ContentOf(d) :
                   /\ IsError(ContentOf(d)[k])
                   /\ ContentOf(d)[k].v.kind \in {"MissingListItem", "ExtraListItem"}})

(* C5 as stated: pairing threshold monotonicity.  For two lists and        *)
(* thresholds t1 <= t2 in [0,1] set as '_pairing_threshold' on the list's  *)
(* weight spec, the total number of MissingListItem and ExtraListItem      *)
(* leaves in the diff with t2 is never smaller than with t1.               *)
C5_TotalMonotone ==
    (pc = "checked" /\ "_pairing_threshold" \in DOMAIN weights.v) =>
        \A t1 \in Thresholds :
            RLeq(t1, PairingThreshold(weights)) =>
                RLeq(ListItemLeaves(CheckDiff(expected, actual, WithThreshold(t1), config)),
                     ListItemLeaves(diff))

(* C5: pairing threshold monotonicity at the list's own level.  For two    *)
(* lists and thresholds t1 <= t2 in [0,1] set as '_pairing_threshold' on   *)
(* the list's weight spec, the number of MissingListItem and ExtraListItem *)
(* leaves directly in that list's '_content' with t2 is never smaller than *)
(* with t1.                                                                *)
C5_OwnLevelMonotone ==
    (pc = "checked" /\ "_pairing_threshold" \in DOMAIN weights.v) =>
        \A t1 \in Thresholds :
            RLeq(t1, PairingThreshold(weights)) =>
                OwnListItemLeaves(CheckDiff(expected, actual, WithThreshold(t1), config))
                    <= OwnListItemLeaves(diff)

(* check has run with threshold 1 on two one-item lists whose items agree  *)
(* on one key of two: the pair is broken, where threshold 0 keeps it.      *)
C5_Witness ==
    /\ pc = "checked"
    /\ expected = List(<<Dict(("a" :> Int_(0)) @@ ("b" :> Int_(0)))>>)
    /\ actual = List(<<Dict(("a" :> Int_(0)) @@ ("b" :> Int_(1)))>>)
    /\ weights = WithThreshold(One)
    /\ OwnListItemLeaves(diff) = 2
    /\ OwnListItemLeaves(CheckDiff(expected, actual, WithThreshold(Zero), config)) = 0

(* Some error record of diff d lies at or beneath a path whose weight-spec *)
(* node holds '_suppress': true.  e is the expected value at the path of   *)
(* d, w the weight-spec node of that path, s whether a node above it is    *)
(* suppressed.  A '_length' leaf lies at the path of its list; the entries *)
(* of '_content' lie under the list's '_content' spec; the entry of a key  *)
(* lies under the nested spec of that key.                                 *)
RECURSIVE SuppressedErrorIn(_, _, _, _)
SuppressedErrorIn(d, e, w, s) ==
    IF d.t = "none"
    THEN FALSE
    ELSE IF IsError(d)
    THEN s \/ IsSuppressed(w)
    ELSE IF e.t = "list"
    THEN \/ KeyOf("_length") \in DOMAIN d.v /\ (s \/ IsSuppressed(w))
         \/ \E k \in DOMAIN ContentOf(d) :
               SuppressedErrorIn(ContentOf(d)[k],
                                 IF k[1] = "idx" THEN e.v[k[2] + 1] ELSE Null,
                                 GetNestedWeights(w, "_content"),
                                 s \/ IsSuppressed(w))
    ELSE \E k \in DOMAIN d.v :
            SuppressedErrorIn(d.v[k],
                              IF k[2] \in DOMAIN e.v THEN e.v[k[2]] ELSE Null,
                              GetNestedWeights(w, k[2]),
                              s \/ IsSuppressed(w))

(* C6: suppression.  No error record located at or beneath a path whose    *)
(* weight-spec node has '_suppress': true is in the Result.diff that       *)
(* calculate_score returns: KeyNotExist and UnexpectedKey of a key whose   *)
(* nested spec is suppressed, and MissingListItem and ExtraListItem of a   *)
(* list whose '_content' spec is suppressed, included.                     *)
C6_Suppression ==
    pc = "scored" => ~SuppressedErrorIn(result.diff, expected, weights, FALSE)

(* C7: type dispatch.  For every expected and actual whose variants (Null, *)
(* Bool, Int, Float, String, Array, Object) differ, in either direction    *)
(* and Int against Bool and Int against Float included, the diff is a      *)
(* single TypesNotEqual leaf that records the two variant names with the   *)
(* incoming weight; no value comparison takes place.                       *)
C7_TypeDispatch ==
    (pc = "checked" /\ expected.t # actual.t) =>
        diff = TypesNotEqual(expected, actual, GetRootWeight(weights), IsSuppressed(weights))

(* C8: object reconciliation.  For two objects the key set of the diff is  *)
(* exactly the keys only in expected, each a KeyNotExist leaf, the keys    *)
(* only in actual, each an UnexpectedKey leaf, and the shared keys whose   *)
(* recursive diff is not empty; a shared key with equal values is absent.  *)
C8_ObjectReconciliation ==
    (pc = "checked" /\ expected.t = "dict" /\ actual.t = "dict") =>
        /\ diff.t = "node"
        /\ DOMAIN diff.v =
             {KeyOf(k) : k \in
                (DOMAIN expected.v \ DOMAIN actual.v)
                  \cup (DOMAIN actual.v \ DOMAIN expected.v)
                  \cup {x \in DOMAIN expected.v \cap DOMAIN actual.v :
                          CheckDiff(expected.v[x], actual.v[x],
                                    GetNestedWeights(weights, x), config) # NO_DIFF}}
        /\ \A k \in DOMAIN expected.v \ DOMAIN actual.v :
              IsError(diff.v[KeyOf(k)]) /\ diff.v[KeyOf(k)].v.kind = "KeyNotExist"
        /\ \A k \in DOMAIN actual.v \ DOMAIN expected.v :
              IsError(diff.v[KeyOf(k)]) /\ diff.v[KeyOf(k)].v.kind = "UnexpectedKey"
        /\ \A k \in DOMAIN expected.v \cap DOMAIN actual.v :
              expected.v[k] = actual.v[k] => KeyOf(k) \notin DOMAIN diff.v

(* check has run on {'a': 0, 'b': 1} against {'a': 1}: the diff holds the  *)
(* ValuesNotEqual of 'a' and the KeyNotExist of 'b'.                       *)
C8_Witness ==
    /\ pc = "checked"
    /\ expected = Dict(("a" :> Int_(0)) @@ ("b" :> Int_(1)))
    /\ actual = Dict("a" :> Int_(1))
    /\ weights = NO_WEIGHTS
    /\ diff = Node((KeyOf("a") :> ValuesNotEqual(Int_(0), Int_(1), One, FALSE))
                     @@ (KeyOf("b") :> KeyNotExist(Str("b"), Null, One, FALSE)))

(* The '_weight' a weight-spec node states (default 1), and the weight the *)
(* entry of key k states: a bare number, or the '_weight' of a nested      *)
(* spec.                                                                   *)
StatedWeight(w) ==
    IF w.t = "spec" /\ "_weight" \in DOMAIN w.v THEN w.v["_weight"].v ELSE One

StatedKeyWeight(w, k) ==
    IF k \notin DOMAIN w.v THEN One
    ELSE IF w.v[k].t = "num" THEN w.v[k].v
    ELSE StatedWeight(w.v[k])

(* Every ValuesNotEqual and TypesNotEqual leaf of diff d weighs the        *)
(* product p of the weights stated on its path.  e is the expected value   *)
(* at the path of d and w the weight-spec node of that path.               *)
RECURSIVE WeightsMultiply(_, _, _, _)
WeightsMultiply(d, e, w, p) ==
    IF IsError(d)
    THEN d.v.kind \in {"ValuesNotEqual", "TypesNotEqual"} => d.v.weight = p
    ELSE IF e.t = "list"
    THEN \A k \in DOMAIN ContentOf(d) :
            k[1] = "idx" =>
                WeightsMultiply(ContentOf(d)[k], e.v[k[2] + 1],
                                GetNestedWeights(w, "_content"),
                                RMul(p, StatedWeight(GetNestedWeights(w, "_content"))))
    ELSE \A k \in DOMAIN d.v :
            k[2] \in DOMAIN e.v =>
                WeightsMultiply(d.v[k], e.v[k[2]], GetNestedWeights(w, k[2]),
                                RMul(p, StatedKeyWeight(w, k[2])))

(* C9: multiplicative weight propagation.  A '_weight' set on any          *)
(* weight-spec node (the root, the nested spec of a key, the '_content'    *)
(* spec of an array) multiplies the weight of every error leaf beneath the *)
(* node: a ValuesNotEqual or TypesNotEqual leaf weighs the product of the  *)
(* root '_weight' and the weights of all spec nodes on its path.           *)
C9_WeightPropagation ==
    pc = "checked" => WeightsMultiply(diff, expected, weights, StatedWeight(weights))

(* A weight specification with every bare number of a data key written as *)
(* the nested specification {'_weight': n}, at every depth.                *)
RECURSIVE Longhand(_)
Longhand(w) ==
    WSpec([k \in DOMAIN w.v |->
             IF w.v[k].t = "num" /\ k \in Keys THEN WeightOf(w.v[k].v)
             ELSE IF w.v[k].t = "spec" THEN Longhand(w.v[k])
             ELSE w.v[k]])

(* C10: shorthand equivalence.  For every data key k and number n, the     *)
(* weight specs {k: n} and {k: {'_weight': n}} yield identical diffs (leaf *)
(* weights included) and identical count, weighted_count, weighted_failed  *)
(* and hence similarity, for every expected/actual pair.  Data keys never  *)
(* collide with the control keys of a weight spec.                         *)
C10_ShorthandEquivalence ==
    Longhand(weights) # weights =>
        /\ pc = "checked" =>
             diff = CheckDiff(expected, actual, Longhand(weights), config)
        /\ pc = "scored" =>
             /\ result = Score(expected, actual, Longhand(weights), config)
             /\ Similarity(result) =
                  Similarity(Score(expected, actual, Longhand(weights), config))

(* calculate_score has run on {'a': 0} against {'a': 1} with the weights   *)
(* {'a': MaxWeight}: the leaf and the failed weight carry the number, as   *)
(* they do under {'a': {'_weight': MaxWeight}}.                            *)
C10_Witness ==
    /\ pc = "scored"
    /\ weights = WSpec("a" :> Num(RInt(MaxWeight)))
    /\ expected = Dict("a" :> Int_(0))
    /\ actual = Dict("a" :> Int_(1))
    /\ diff = Node(KeyOf("a") :> ValuesNotEqual(Int_(0), Int_(1), RInt(MaxWeight), FALSE))
    /\ result.weighted_failed = RInt(MaxWeight)
    /\ result = Score(expected, actual, WSpec("a" :> WeightOf(RInt(MaxWeight))), config)

BoostOf(item, w, flag) ==
    IF GetBoolean(w, flag)
    THEN WeightedAttributesCount(item, One, GetNestedWeights(w, "_content"))
    ELSE One

(* C12: missing and extra penalties.  An unmatched expected element gets   *)
(* the weight list weight * get_weight('_missing') * boost, an unmatched   *)
(* actual element list weight * get_weight('_extra') * boost; boost is 1   *)
(* unless '_boost_missing' / '_boost_extra' is true, and then the weighted *)
(* attribute count of the unmatched value, computed with weight 1 against  *)
(* the '_content' spec.                                                    *)
C12_Penalties ==
    (pc = "checked" /\ expected.t = "list" /\ actual.t = "list") =>
        \A k \in DOMAIN ContentOf(diff) :
            /\ (IsError(ContentOf(diff)[k]) /\ ContentOf(diff)[k].v.kind = "MissingListItem") =>
                 /\ k[1] = "idx"
                 /\ ContentOf(diff)[k].v.expected = expected.v[k[2] + 1]
                 /\ ContentOf(diff)[k].v.weight =
                      RMul(RMul(StatedWeight(weights), StatedKeyWeight(weights, "_missing")),
                           BoostOf(expected.v[k[2] + 1], weights, "_boost_missing"))
            /\ (IsError(ContentOf(diff)[k]) /\ ContentOf(diff)[k].v.kind = "ExtraListItem") =>
                 /\ k[1] = "extra"
                 /\ ContentOf(diff)[k].v.received = actual.v[k[2] + 1]
                 /\ ContentOf(diff)[k].v.weight =
                      RMul(RMul(StatedWeight(weights), StatedKeyWeight(weights, "_extra")),
                           BoostOf(actual.v[k[2] + 1], weights, "_boost_extra"))

(* check has run with the boost on and the root weighing MaxWeight on      *)
(* [{'a': 0, 'b': 1}] against []: the missing item weighs MaxWeight *      *)
(* (MaxWeight + 1) * (MaxWeight + 1), its key 'a' counting MaxWeight.      *)
C12_Witness ==
    /\ pc = "checked"
    /\ expected = List(<<Dict(("a" :> Int_(0)) @@ ("b" :> Int_(1)))>>)
    /\ actual = List(<<>>)
    /\ GetBoolean(weights, "_boost_missing")
    /\ StatedWeight(weights) = RInt(MaxWeight)
    /\ IdxOf(0) \in DOMAIN ContentOf(diff)
    /\ ContentOf(diff)[IdxOf(0)].v.kind = "MissingListItem"
    /\ ContentOf(diff)[IdxOf(0)].v.weight = RInt(MaxWeight * (MaxWeight + 1) * (MaxWeight + 1))

(* The paths from a value to its scalar leaves, a path a sequence of keys  *)
(* and indices, and the product of get_weight(key) over the object keys of *)
(* a path, array elements sharing the '_content' spec.                     *)
RECURSIVE LeafPaths(_)
LeafPaths(o) ==
    IF o.t = "dict"
    THEN UNION {{<<KeyOf(k)>> \o p : p \in LeafPaths(o.v[k])} : k \in DOMAIN o.v}
    ELSE IF o.t = "list"
    THEN UNION {{<<IdxOf(i)>> \o p : p \in LeafPaths(o.v[i])} : i \in DOMAIN o.v}
    ELSE {<<>>}

RECURSIVE PathWeight(_, _)
PathWeight(p, w) ==
    IF p = <<>>
    THEN One
    ELSE IF p[1][1] = "key"
    THEN RMul(GetWeight(w, p[1][2]), PathWeight(Tail(p), GetNestedWeights(w, p[1][2])))
    ELSE PathWeight(Tail(p), GetNestedWeights(w, "_content"))

(* C13: the count model.  Result.count is the number of scalar leaves of   *)
(* expected, null included; Result.weighted_count is the sum over those    *)
(* leaves of the root weight times the product of get_weight(key) over the *)
(* object keys on the leaf's path, array elements sharing the '_content'   *)
(* spec without a factor per index.  Both are functions of expected and    *)
(* the weight spec alone, whatever actual is.                              *)
C13_CountModel ==
    pc = "scored" =>
        /\ result.count = RInt(Cardinality(LeafPaths(expected)))
        /\ result.weighted_count =
             RMul(StatedWeight(weights),
                  SumOver([p \in LeafPaths(expected) |-> PathWeight(p, weights)],
                          LeafPaths(expected)))

(* calculate_score has run on {'a': [{'b': 0}], 'b': null} under           *)
(* {'a': {'_weight': MaxWeight, 'b': MaxWeight}}: two leaves, the one      *)
(* under 'a' weighing MaxWeight (the 'b' of the spec is not in '_content') *)
(* and the null weighing 1.                                                *)
C13_Witness ==
    /\ pc = "scored"
    /\ expected = Dict(("a" :> List(<<Dict("b" :> Int_(0))>>)) @@ ("b" :> Null))
    /\ weights = WSpec("a" :> WSpec(("_weight" :> Num(RInt(MaxWeight)))
                                      @@ ("b" :> Num(RInt(MaxWeight)))))
    /\ result.count = RInt(2)
    /\ result.weighted_count = RInt(MaxWeight + 1)

(* The paths from a diff to its error records, a path a sequence of diff   *)
(* keys, and the error record at a path.                                   *)
RECURSIVE ErrorPaths(_)
ErrorPaths(d) ==
    IF IsError(d)
    THEN {<<>>}
    ELSE UNION {{<<k>> \o p : p \in ErrorPaths(d.v[k])} : k \in DOMAIN d.v}

RECURSIVE ErrorAt(_, _)
ErrorAt(d, p) == IF p = <<>> THEN d ELSE ErrorAt(d.v[p[1]], Tail(p))

(* C14: metrics from the unfiltered diff.  Result.failed is the number of  *)
(* error leaves of the raw diff that check returns and                     *)
(* Result.weighted_failed the sum of their weights, a suppressed error     *)
(* counting exactly like an unsuppressed one.                              *)
C14_MetricsUnfiltered ==
    pc = "scored" =>
        /\ diff = CheckDiff(expected, actual, weights, config)
        /\ result.failed = RInt(Cardinality(ErrorPaths(diff)))
        /\ result.weighted_failed =
             SumOver([p \in ErrorPaths(diff) |-> ErrorAt(diff, p).v.weight],
                     ErrorPaths(diff))

(* calculate_score has run on {'a': 0} against {'a': 1} with the key 'a'   *)
(* suppressed: the error is gone from Result.diff and counts in failed.    *)
C14_Witness ==
    /\ pc = "scored"
    /\ expected = Dict("a" :> Int_(0))
    /\ actual = Dict("a" :> Int_(1))
    /\ weights = WSpec("a" :> Suppress)
    /\ diff = Node(KeyOf("a") :> ValuesNotEqual(Int_(0), Int_(1), One, TRUE))
    /\ result.diff = NO_DIFF
    /\ result.failed = One
    /\ result.weighted_failed = One

(* The keys of a weight spec, at any depth, whose entry is neither a       *)
(* number nor a nested spec nor a flag.                                    *)
RECURSIVE InvalidKeys(_)
InvalidKeys(w) ==
    {k \in DOMAIN w.v : w.v[k].t \notin {"spec", "num", "bool"}}
      \cup UNION {InvalidKeys(w.v[k]) : k \in {x \in DOMAIN w.v : w.v[x].t = "spec"}}

(* C15: invalid weight spec.  Whenever the weight specification holds an   *)
(* entry, under a data key or under a control key such as '_content',      *)
(* '_missing', '_extra' or '_length', that is neither a number nor a       *)
(* nested specification, the comparison fails with a hard error that names *)
(* the offending key and returns no diff, whether or not the key occurs in *)
(* the compared data.                                                      *)
C15_InvalidWeightSpec ==
    (pc # "ready" /\ InvalidKeys(weights) # {}) =>
        /\ pc = "raised"
        /\ diff.t = "TypeError"
        /\ diff.v \in InvalidKeys(weights)

(* Two floats are the same under a configuration when they are equal or,   *)
(* 'allow_round' being an int p, equal after rounding both to p places.    *)
SameFloat(e, a, cfg) ==
    \/ e.v = a.v
    \/ /\ cfg.allow_round.t = "int"
       /\ Round(e.v, cfg.allow_round.v) = Round(a.v, cfg.allow_round.v)

(* C16: float tolerance.  With allow_round = p (an integer) two floats     *)
(* produce no diff iff they are equal or become equal after rounding both  *)
(* to p decimal places; when allow_round is absent or not an integer only  *)
(* exact equality produces no diff; otherwise the result is a              *)
(* ValuesNotEqual leaf carrying the expected and the received value.       *)
C16_FloatTolerance ==
    (pc = "checked" /\ expected.t = "float" /\ actual.t = "float") =>
        /\ diff = NO_DIFF <=> SameFloat(expected, actual, config)
        /\ ~SameFloat(expected, actual, config) =>
             diff = ValuesNotEqual(expected, actual, GetRootWeight(weights), FALSE)

(* The pairs the assignment produces for two non-empty lists, and those of *)
(* them whose similarity reaches the threshold.                            *)
ProducedPairs(e, a, w, cfg) ==
    IF Len(e.v) > 0 /\ Len(a.v) > 0
    THEN LinearSumAssignment(CostMatrix(
             ScoreMatrix(e, a, GetRootWeight(w), GetNestedWeights(w, "_content"), cfg)))
    ELSE {}
ReachingPairs(e, a, w, cfg) ==
    {p \in ProducedPairs(e, a, w, cfg) :
        RLeq(PairingThreshold(w),
             ScoreMatrix(e, a, GetRootWeight(w), GetNestedWeights(w, "_content"),
                         cfg)[p[1]][p[2]])}

(* The keys of a '_content' that hold an error record of the kind.         *)
KeysOfKind(content, kind) ==
    {k \in DOMAIN content : IsError(content[k]) /\ content[k].v.kind = kind}

(* C17: pairing partition.  In every list comparison the surviving pairs   *)
(* are one-to-one, a produced pair survives iff its similarity reaches     *)
(* '_pairing_threshold', each expected index i is in exactly one of a      *)
(* surviving pair and a MissingListItem at integer key i, and each actual  *)
(* index j in exactly one of a surviving pair and an ExtraListItem at key  *)
(* 'extra_<j>'; hence with the default threshold 0 there are exactly       *)
(* max(0, |e| - |a|) MissingListItem and max(0, |a| - |e|) ExtraListItem   *)
(* leaves at that level.                                                   *)
C17_PairingPartition ==
    (pc = "checked" /\ expected.t = "list" /\ actual.t = "list") =>
        LET content == ContentOf(diff)
            pairs == ReachingPairs(expected, actual, weights, config)
            n == Len(expected.v)
            m == Len(actual.v)
        IN  /\ \A p, q \in pairs : (p[1] = q[1]) <=> (p[2] = q[2])
            /\ KeysOfKind(content, "MissingListItem")
                 = {IdxOf(i - 1) : i \in (1..n) \ {p[1] : p \in pairs}}
            /\ KeysOfKind(content, "ExtraListItem")
                 = {ExtraOf(j - 1) : j \in (1..m) \ {p[2] : p \in pairs}}
            /\ \A p \in pairs :
                 IdxOf(p[1] - 1) \in DOMAIN content =>
                     content[IdxOf(p[1] - 1)]
                       = Diff(expected.v[p[1]], actual.v[p[2]], GetRootWeight(weights),
                              GetNestedWeights(weights, "_content"), FALSE, config)
            /\ PairingThreshold(weights) = Zero =>
                 /\ Cardinality(KeysOfKind(content, "MissingListItem"))
                      = (IF n > m THEN n - m ELSE 0)
                 /\ Cardinality(KeysOfKind(content, "ExtraListItem"))
                      = (IF m > n THEN m - n ELSE 0)

(* check has run on two lists of two items under the threshold 1: one      *)
(* produced pair is of equal dicts and survives, the other is of dicts     *)
(* that differ and is dropped, leaving one missing and one extra item.     *)
C17_Witness ==
    /\ pc = "checked"
    /\ weights = WithThreshold(One)
    /\ Len(expected.v) = 2 /\ Len(actual.v) = 2
    /\ Cardinality(ProducedPairs(expected, actual, weights, config)) = 2
    /\ Cardinality(ReachingPairs(expected, actual, weights, config)) = 1
    /\ Cardinality(KeysOfKind(ContentOf(diff), "MissingListItem")) = 1
    /\ Cardinality(KeysOfKind(ContentOf(diff), "ExtraListItem")) = 1

(* The one-to-one matchings of all the rows (or, when there are fewer      *)
(* columns, of all the columns) of an n x m matrix, as sets of pairs, and  *)
(* the total similarity of a set of pairs.                                 *)
Matchings(n, m) ==
    IF n <= m
    THEN {{<<i, f[i]>> : i \in 1..n} :
             f \in {g \in [1..n -> 1..m] : \A i, j \in 1..n : i # j => g[i] # g[j]}}
    ELSE {{<<f[j], j>> : j \in 1..m} :
             f \in {g \in [1..m -> 1..n] : \A i, j \in 1..m : i # j => g[i] # g[j]}}
TotalSimilarity(S, pairs) == SumOver([p \in pairs |-> S[p[1]][p[2]]], pairs)

(* C18: global optimality of the pairing.  For two non-empty lists the     *)
(* produced pairs form a one-to-one matching of size min(|expected|,       *)
(* |actual|) whose total similarity is maximal over all such matchings;    *)
(* in particular a single expected element is paired with an actual        *)
(* element of maximal weighted similarity.                                 *)
C18_GlobalOptimality ==
    (/\ pc = "checked"
     /\ expected.t = "list" /\ actual.t = "list"
     /\ Len(expected.v) > 0 /\ Len(actual.v) > 0) =>
        LET n == Len(expected.v)
            m == Len(actual.v)
            S == ScoreMatrix(expected, actual, GetRootWeight(weights),
                             GetNestedWeights(weights, "_content"), config)
            pairs == ProducedPairs(expected, actual, weights, config)
            content == ContentOf(diff)
        IN  /\ pairs \in Matchings(n, m)
            /\ \A other \in Matchings(n, m) :
                 RLeq(TotalSimilarity(S, other), TotalSimilarity(S, pairs))
            /\ n = 1 => \A p \in pairs : \A j \in 1..m : RLeq(S[1][j], S[1][p[2]])
            /\ \A p \in pairs :
                 IF IdxOf(p[1] - 1) \in DOMAIN content
                 THEN content[IdxOf(p[1] - 1)]
                        = Diff(expected.v[p[1]], actual.v[p[2]], GetRootWeight(weights),
                               GetNestedWeights(weights, "_content"), FALSE, config)
                 ELSE expected.v[p[1]] = actual.v[p[2]]

(* check has run on two lists of two dicts where the first expected item   *)
(* is as similar to the first actual item as to any (1/2) and the          *)
(* remaining pair would then score 0: the pairs produced are the crossed   *)
(* ones, of total similarity 1.                                            *)
C18_Witness ==
    /\ pc = "checked"
    /\ weights = NO_WEIGHTS
    /\ expected = List(<<Dict(("a" :> Int_(0)) @@ ("b" :> Int_(0))),
                         Dict(("a" :> Str("x")) @@ ("b" :> Int_(1)))>>)
    /\ actual = List(<<Dict(("a" :> Int_(0)) @@ ("b" :> Int_(1))),
                       Dict(("a" :> Int_(1)) @@ ("b" :> Int_(0)))>>)
    /\ ProducedPairs(expected, actual, weights, config) = {<<1, 2>>, <<2, 1>>}
    /\ DOMAIN ContentOf(diff) = {IdxOf(0), IdxOf(1)}

(* The diff nodes nested below a diff, at any depth (the error records     *)
(* included).                                                              *)
RECURSIVE NodesBelow(_)
NodesBelow(d) ==
    IF IsError(d)
    THEN {}
    ELSE UNION {{d.v[k]} \cup NodesBelow(d.v[k]) : k \in DOMAIN d.v}

(* C19: pruning invariant.  In every diff returned by check no composite   *)
(* nested below the root is empty: every object key, '_length' or          *)
(* '_content' marker and list index present in the diff leads to at least  *)
(* one error leaf; and the root is empty iff there is no difference, that  *)
(* is, iff the diff holds no error leaf.                                   *)
C19_PruningInvariant ==
    pc = "checked" =>
        /\ \A n \in NodesBelow(diff) :
             /\ n # NO_DIFF
             /\ ErrorPaths(n) # {}
        /\ diff = NO_DIFF <=> ErrorPaths(diff) = {}
        /\ expected = actual => diff = NO_DIFF

(* check has run on two dicts whose key 'a' holds the same non-empty list  *)
(* and whose key 'b' differs: the diff holds 'b' only.                     *)
C19_Witness ==
    /\ pc = "checked"
    /\ expected.t = "dict" /\ actual.t = "dict"
    /\ DOMAIN expected.v = {"a", "b"} /\ DOMAIN actual.v = {"a", "b"}
    /\ expected.v["a"] = List(<<Int_(0)>>)
    /\ actual.v["a"] = expected.v["a"]
    /\ DOMAIN diff.v = {KeyOf("b")}

(* A diff with exactly its suppressed error records removed and the        *)
(* composites emptied by that pruned, every other record as it is; the     *)
(* empty composite when the diff is itself a suppressed record.            *)
RECURSIVE ExactFilter(_)
ExactFilter(d) ==
    IF IsError(d)
    THEN IF d.v.suppressed THEN NO_DIFF ELSE d
    ELSE LET keep == {k \in DOMAIN d.v : ~IsSuppressedDiff(d.v[k])}
             g == [k \in keep |-> ExactFilter(d.v[k])]
         IN  Node([k \in {x \in keep : g[x] # NO_DIFF} |-> g[k]])

(* C20: the suppression filter is exact.  Result.diff equals the raw diff  *)
(* with exactly the suppressed error records removed and the composites    *)
(* emptied by that removal pruned; every non-suppressed error record is    *)
(* carried over unchanged, with all of its fields, expected and received   *)
(* payloads that are empty or contain empty objects included; when every   *)
(* record is removed Result.diff is the empty composite; with no           *)
(* '_suppress' flag anywhere Result.diff equals the raw diff.              *)
C20_SuppressionFilterExact ==
    pc = "scored" =>
        /\ result.diff = ExactFilter(diff)
        /\ (\A p \in ErrorPaths(diff) : ~ErrorAt(diff, p).v.suppressed) => result.diff = diff

(* C21: no state crosses calls.  Any sequence of check and calculate_score *)
(* calls on one Compare instance leaves the caller's expected and actual   *)
(* values and the instance's config and weights unchanged, so a later call *)
(* with the same arguments returns the same diff and performs the same     *)
(* reporting as the first.                                                 *)
C21_NoStateCrossesCalls ==
    [][/\ expected' = expected
       /\ actual' = actual
       /\ weights' = weights
       /\ config' = config
       /\ pc' = pc => (diff' = diff /\ result' = result /\ reported' = reported)]_vars

(* The one-to-one matchings of maximal total similarity of two lists, and  *)
(* the diff and the result the comparison of the two lists gives when the  *)
(* pairs are those of the matching M instead of the assignment solver's.   *)
OptimalMatchings(e, a, w, cfg) ==
    IF Len(e.v) > 0 /\ Len(a.v) > 0
    THEN UNION {{M \in Matchings(Len(e.v), Len(a.v)) :
                   \A other \in Matchings(Len(e.v), Len(a.v)) :
                      RLeq(TotalSimilarity(S, other), TotalSimilarity(S, M))} :
                S \in {ScoreMatrix(e, a, GetRootWeight(w), GetNestedWeights(w, "_content"),
                                   cfg)}}
    ELSE {{}}
DiffOfMatching(e, a, w, cfg, M) ==
    LET S == ScoreMatrix(e, a, GetRootWeight(w), GetNestedWeights(w, "_content"), cfg)
        kept == {p \in M : RLeq(PairingThreshold(w), S[p[1]][p[2]])}
        content == ContentOfPairs(e, a, GetRootWeight(w), w, IsSuppressed(w), cfg, kept)
        length == ListLenDiff(e, a, RMul(GetRootWeight(w), GetWeight(w, "_length")),
                              IsSuppressed(w), cfg)
        keys == {KeyOf("_content")}
                  \cup (IF NeedCompareLength(cfg) THEN {KeyOf("_length")} ELSE {})
    IN  Node(WithoutEmpties([k \in keys |->
                               IF k = KeyOf("_length") THEN length ELSE content]))
ResultOfMatching(e, a, w, cfg, M) ==
    CreateResult(DiffOfMatching(e, a, w, cfg, M), e, GetRootWeight(w), w)

(* C22: tie-independence of the list diff.  When several one-to-one        *)
(* matchings achieve the same maximal total similarity, the diff, failed   *)
(* and weighted_failed produced for the two lists are the same whichever   *)
(* of those optimal matchings is used.                                     *)
C22_TieIndependence ==
    (pc = "scored" /\ expected.t = "list" /\ actual.t = "list") =>
        \A M \in OptimalMatchings(expected, actual, weights, config) :
           /\ DiffOfMatching(expected, actual, weights, config, M) = diff
           /\ ResultOfMatching(expected, actual, weights, config, M).failed = result.failed
           /\ ResultOfMatching(expected, actual, weights, config, M).weighted_failed
                = result.weighted_failed

(* C22 as the code has it: when every item of the two lists is an int or a *)
(* str, the root weight is positive and several one-to-one matchings       *)
(* achieve the same maximal total similarity, failed and weighted_failed   *)
(* are the same whichever of those optimal matchings is used, and the      *)
(* matching the solver returns is one of them.                             *)
IntsAndStrs(l) == \A i \in 1..Len(l.v) : l.v[i].t \in {"int", "str"}
C22_TieIndependentCounts ==
    (/\ pc = "scored"
     /\ expected.t = "list" /\ actual.t = "list"
     /\ IntsAndStrs(expected) /\ IntsAndStrs(actual)
     /\ RLess(Zero, GetRootWeight(weights))) =>
        /\ ProducedPairs(expected, actual, weights, config)
             \in OptimalMatchings(expected, actual, weights, config)
        /\ \A M \in OptimalMatchings(expected, actual, weights, config) :
             /\ ResultOfMatching(expected, actual, weights, config, M).failed
                  = result.failed
             /\ ResultOfMatching(expected, actual, weights, config, M).weighted_failed
                  = result.weighted_failed

(* calculate_score has run on [0, 1] against ['x'] with missing items      *)
(* weighted: both expected items score 0 against 'x', so either can be     *)
(* paired with it; the two matchings give different diffs and the same     *)
(* failed and weighted_failed.                                             *)
C22_Witness ==
    /\ pc = "scored"
    /\ expected = List(<<Int_(0), Int_(1)>>)
    /\ actual = List(<<Str("x")>>)
    /\ weights = WSpec("_missing" :> Num(RInt(MaxWeight)))
    /\ OptimalMatchings(expected, actual, weights, config) = {{<<1, 1>>}, {<<2, 1>>}}
    /\ DiffOfMatching(expected, actual, weights, config, {<<1, 1>>})
         # DiffOfMatching(expected, actual, weights, config, {<<2, 1>>})
    /\ diff \in {DiffOfMatching(expected, actual, weights, config, M) :
                   M \in {{<<1, 1>>}, {<<2, 1>>}}}
    /\ result.failed = RInt(3)
    /\ result.weighted_failed = RInt(2 + MaxWeight)

(* A weight specification without its '_suppress' flags, at every depth,   *)
(* and a diff with the suppressed mark of every error record cleared.      *)
RECURSIVE WithoutSuppressFlags(_)
WithoutSuppressFlags(w) ==
    IF w.t = "spec"
    THEN WSpec([k \in DOMAIN w.v \ {"_suppress"} |-> WithoutSuppressFlags(w.v[k])])
    ELSE w
RECURSIVE WithoutMarks(_)
WithoutMarks(d) ==
    IF IsError(d)
    THEN [d EXCEPT !.v.suppressed = FALSE]
    ELSE IF d.t = "node"
    THEN Node([k \in DOMAIN d.v |-> WithoutMarks(d.v[k])])
    ELSE d
RECURSIVE MarkedIn(_)
MarkedIn(d) ==
    IF IsError(d)
    THEN d.v.suppressed
    ELSE d.t = "node" /\ \E k \in DOMAIN d.v : MarkedIn(d.v[k])

(* C23: suppression does not influence pairing.  Removing every            *)
(* '_suppress' flag from the weight specification changes neither the      *)
(* similarity matrix, nor the chosen pairs, nor the raw diff's structure,  *)
(* kinds and weights (only the suppressed marks of the records), nor       *)
(* count, weighted_count, failed, weighted_failed and similarity; so any   *)
(* two specifications that differ in their flags only agree on all these.  *)
C23_SuppressionNeutral ==
    pc = "scored" =>
        LET plain == WithoutSuppressFlags(weights)
            raw == CheckDiff(expected, actual, plain, config)
            scored == CreateResult(raw, expected, GetRootWeight(plain), plain)
        IN  /\ WithoutMarks(diff) = raw
            /\ ~MarkedIn(raw)
            /\ result.count = scored.count
            /\ result.weighted_count = scored.weighted_count
            /\ result.failed = scored.failed
            /\ result.weighted_failed = scored.weighted_failed
            /\ Similarity(result) = Similarity(scored)
            /\ (expected.t = "list" /\ Len(expected.v) > 0 /\ Len(actual.v) > 0) =>
                 /\ ScoreMatrix(expected, actual, GetRootWeight(weights),
                                GetNestedWeights(weights, "_content"), config)
                      = ScoreMatrix(expected, actual, GetRootWeight(plain),
                                    GetNestedWeights(plain, "_content"), config)
                 /\ ProducedPairs(expected, actual, weights, config)
                      = ProducedPairs(expected, actual, plain, config)

(* calculate_score has run on a list of one dict against a list of two     *)
(* under a weight on the key 'a' of the items, which are also suppressed:  *)
(* the expected item is paired with the second actual item, as the weight  *)
(* asks, the record of the pair is marked, and it counts in failed and     *)
(* weighted_failed with the extra item and the lengths.                    *)
C23_Witness ==
    /\ pc = "scored"
    /\ weights = WSpec("_content" :> WSpec(("_suppress" :> Flag(TRUE))
                                             @@ ("a" :> Num(RInt(MaxWeight)))))
    /\ expected = List(<<Dict(("a" :> Int_(0)) @@ ("b" :> Int_(0)))>>)
    /\ actual = List(<<Dict(("a" :> Int_(1)) @@ ("b" :> Int_(0))),
                       Dict(("a" :> Int_(0)) @@ ("b" :> Int_(1)))>>)
    /\ ProducedPairs(expected, actual, weights, config) = {<<1, 2>>}
    /\ DOMAIN ContentOf(diff) = {IdxOf(0), ExtraOf(0)}
    /\ MarkedIn(diff)
    /\ DOMAIN ContentOf(result.diff) = {ExtraOf(0)}
    /\ result.failed = RInt(3)
    /\ result.weighted_failed = RInt(3)

(* The factors the root weight is multiplied by, the specification with    *)
(* its root '_weight' multiplied by c, and a diff with the weight of every *)
(* error record multiplied by c.                                           *)
ScaleFactors == {Rat(1, 2), RInt(MaxWeight + 1)}
ScaledBy(w, c) == WithRootWeight(w, RMul(c, GetRootWeight(w)))
RECURSIVE ScaleLeaves(_, _)
ScaleLeaves(d, c) ==
    IF IsError(d)
    THEN [d EXCEPT !.v.weight = RMul(c, d.v.weight)]
    ELSE IF d.t = "node"
    THEN Node([k \in DOMAIN d.v |-> ScaleLeaves(d.v[k], c)])
    ELSE d

(* C24: scale invariance of the root weight.  Multiplying the root         *)
(* '_weight' by a positive constant c multiplies every error leaf's        *)
(* weight, weighted_failed and weighted_count by c, and leaves the pairing *)
(* of list elements, the diff's structure, failed, count and similarity    *)
(* unchanged.                                                              *)
C24_RootWeightScale ==
    pc = "scored" =>
        \A c \in ScaleFactors :
           LET scaled == ScaledBy(weights, c)
               raw == CheckDiff(expected, actual, scaled, config)
               scored == CreateResult(raw, expected, GetRootWeight(scaled), scaled)
           IN  /\ raw = ScaleLeaves(diff, c)
               /\ scored.weighted_failed = RMul(c, result.weighted_failed)
               /\ scored.weighted_count = RMul(c, result.weighted_count)
               /\ scored.failed = result.failed
               /\ scored.count = result.count
               /\ Similarity(scored) = Similarity(result)
               /\ expected.t = "list" =>
                    ProducedPairs(expected, actual, scaled, config)
                      = ProducedPairs(expected, actual, weights, config)

(* calculate_score has run on a list of one dict against a list of two     *)
(* under the root weight 1/2 and a weight on the key 'a' of the items: the *)
(* expected item is paired with the second actual item, the three records  *)
(* of the diff weigh 1/2 each, and with the root weight multiplied by      *)
(* MaxWeight + 1 they weigh that much more while the pair is the same.     *)
C24_Witness ==
    /\ pc = "scored"
    /\ weights = WithRootWeight(WSpec("_content" :> WSpec("a" :> Num(RInt(MaxWeight)))),
                                Rat(1, 2))
    /\ expected = List(<<Dict(("a" :> Int_(0)) @@ ("b" :> Int_(0)))>>)
    /\ actual = List(<<Dict(("a" :> Int_(1)) @@ ("b" :> Int_(0))),
                       Dict(("a" :> Int_(0)) @@ ("b" :> Int_(1)))>>)
    /\ ProducedPairs(expected, actual, weights, config) = {<<1, 2>>}
    /\ DOMAIN ContentOf(diff) = {IdxOf(0), ExtraOf(0)}
    /\ ContentOf(diff)[ExtraOf(0)].v.weight = Rat(1, 2)
    /\ result.failed = RInt(3)
    /\ result.weighted_failed = Rat(3, 2)
    /\ result.weighted_count = RMul(Rat(1, 2), RInt(MaxWeight + 1))
    /\ ContentOf(CheckDiff(expected, actual, ScaledBy(weights, RInt(MaxWeight + 1)),
                           config))[ExtraOf(0)].v.weight
         = RMul(RInt(MaxWeight + 1), Rat(1, 2))
    /\ ProducedPairs(expected, actual, ScaledBy(weights, RInt(MaxWeight + 1)), config)
         = {<<1, 2>>}

=============================================================================
